---- MODULE Spec2Model ----
(***************************************************************************)
(* Order intake bot (botCom.py): the order ledger (SQLite table orders),   *)
(* the price/stock overrides (table oil_overrides), the per-user           *)
(* conversation state (context.user_data["ordering"]) and the cooldown     *)
(* map LAST_ORDER_AT, with one action per update handler.                  *)
(*                                                                         *)
(* Conventions.  A Python value that may be None, and a dict key that may  *)
(* be missing, is a set with at most one element: {} is None / missing.    *)
(* A text that the code inspects character by character (a contact) is a   *)
(* sequence of one-character strings.  Time is counted in ticks of         *)
(* 1/TicksPerSec second, so that time.time() has a fractional part.        *)
(* Non-ASCII literals of the source are transliterated ("RUB" for the      *)
(* rouble sign), replies are named by a tag instead of their full text.    *)
(*                                                                         *)
(* A handler is an operator from the state it finds (a record of the       *)
(* variables) and its inputs, the outcomes of its I/O among them, to the   *)
(* state it leaves and what it sent; the action applies it.                *)
(***************************************************************************)
EXTENDS Integers, Sequences, FiniteSets, TLC

\* ------------------------------------------------------------------ bounds
TicksPerSec == 2
MaxSeconds == 20
MaxOrders == 2
MaxRows == 30

\* ------------------------------------------------------- program constants
ORDER_COOLDOWN_SEC == 20

\* ADMIN_IDS, in the order of the environment variable.  User 2 is an admin
\* who only receives notifications; users 1 (admin) and 3 (not an admin) act.
ADMIN_IDS == <<1, 2>>

Users == {1, 3}

username == (1 :> {"boss"}) @@ (3 :> {})

None == {}

Some(x) == {x}

Get(s) == CHOOSE x \in s : TRUE

Range(s) == {s[i] : i \in DOMAIN s}

\* ------------------------------------------------------------------- texts
DigitChars == <<"0", "1", "2", "3", "4", "5", "6", "7", "8", "9">>

\* str(n) for n >= 0
RECURSIVE IntText(_)
IntText(n) ==
  IF n < 10 THEN <<DigitChars[n + 1]>>
  ELSE IntText(n \div 10) \o <<DigitChars[(n % 10) + 1]>>

DigitVal(c) == (CHOOSE i \in 1..10 : DigitChars[i] = c) - 1

RECURSIVE DigitsVal(_)
DigitsVal(s) ==
  IF s = << >> THEN 0 ELSE 10 * DigitsVal(SubSeq(s, 1, Len(s) - 1)) + DigitVal(s[Len(s)])

\* int(token): {} stands for ValueError.  A token has no blanks.
ParseInt(s) ==
  LET signed == s # << >> /\ s[1] \in {"-", "+"}
      digits == IF signed THEN Tail(s) ELSE s
  IN  IF digits = << >> \/ \E i \in DOMAIN digits : digits[i] \notin Range(DigitChars)
      THEN None
      ELSE Some(IF signed /\ s[1] = "-" THEN 0 - DigitsVal(digits) ELSE DigitsVal(digits))

UpperChars ==
  <<"A", "B", "C", "D", "E", "F", "G", "H", "I", "J", "K", "L", "M", "N", "O", "P", "Q",
    "R", "S", "T", "U", "V", "W", "X", "Y", "Z">>

LowerChars ==
  <<"a", "b", "c", "d", "e", "f", "g", "h", "i", "j", "k", "l", "m", "n", "o", "p", "q",
    "r", "s", "t", "u", "v", "w", "x", "y", "z">>

\* str.lower()
lower(s) ==
  [i \in DOMAIN s |->
     IF s[i] \in Range(UpperChars)
     THEN LowerChars[CHOOSE k \in DOMAIN UpperChars : UpperChars[k] = s[i]]
     ELSE s[i]]

\* " ".join(tokens)
RECURSIVE join(_)
join(tokens) ==
  IF tokens = << >> THEN << >>
  ELSE IF Len(tokens) = 1 THEN tokens[1]
  ELSE tokens[1] \o <<" ">> \o join(Tail(tokens))

\* \s
Space == {" ", "\t", "\n", "\r"}

\* str.strip()
RECURSIVE lstrip(_)
lstrip(s) == IF s # << >> /\ Head(s) \in Space THEN lstrip(Tail(s)) ELSE s

RECURSIVE rstrip(_)
rstrip(s) ==
  IF s # << >> /\ s[Len(s)] \in Space THEN rstrip(SubSeq(s, 1, Len(s) - 1)) ELSE s

strip(s) == rstrip(lstrip(s))

\* ----------------------------------------------------------------- catalog
\* catalog.py: name, volume, price (an int) and currency of every product; the
\* description, features, compatibility note and image are presentation only.
oils ==
  (1 :> [name |-> "BYD EHSF-1, EHSF-2LV", volume |-> "3 L", price |-> 4400, currency |-> "RUB"]) @@
  (2 :> [name |-> "BYD EHSF-1, EHSF-2LV", volume |-> "1 L", price |-> 1700, currency |-> "RUB"]) @@
  (3 :> [name |-> "Maslo reduktornoe BYD BOT384", volume |-> "1 L", price |-> 1400, currency |-> "RUB"]) @@
  (4 :> [name |-> "Maslo transmissionnoe Castrol D1 OEM", volume |-> "1 L", price |-> 2400, currency |-> "RUB"]) @@
  (5 :> [name |-> "Maslo transmissionnoe Castrol D2 OEM", volume |-> "1 L", price |-> 2400, currency |-> "RUB"]) @@
  (6 :> [name |-> "Maslo transmissionnoe FluidMatic LV MV X824 OEM", volume |-> "1 L", price |-> 2400, currency |-> "RUB"]) @@
  (7 :> [name |-> "Maslo transmissionnoe Castrol W2", volume |-> "1 L", price |-> 2400, currency |-> "RUB"])

\* ------------------------------------------------------------------ inputs
\* Product ids the users press: a catalog product and an id that is not in
\* the catalog.
PickIds == {3, 9}

\* Clock readings: the instants at a whole number of cooldown windows from the
\* start, and one tick after each.
Instants ==
  {t \in 0..(MaxSeconds * TicksPerSec) :
      (t % (ORDER_COOLDOWN_SEC * TicksPerSec)) \in {0, 1}}

T_handle == <<"@", "v", "a", "l", "i", "d", "u", "s", "e", "r", "1">>

T_phone == <<"+", "7", "9", "0", "0", "1", "2", "3", "4", "5", "6", "7">>

T_padded == <<" ">> \o T_phone \o <<"\n">>

T_junk == <<"h", "i", "!">>

\* Free texts a user types, and the phone numbers of shared contacts
\* (<< >> is a contact payload without a number).
\* Contacts of other shapes: a link without TLS, ten characters with two
\* digits, nine digits, and a number that opens with a parenthesis.
T_link_http == <<"h", "t", "t", "p", ":", "/", "/", "t", ".", "m", "e", "/", "a", "b">>

T_sparse == <<"1", "-", "-", "-", "-", "-", "-", "-", "-", "2">>

T_nine == <<"1", "2", "3", "4", "5", "6", "7", "8", "9">>

T_parens == <<"(", "9", "0", "0", ")", " ", "1", "2", "3", "-", "4", "5", "-", "6", "7">>

ContactTexts ==
  {<<" ">> \o T_link_http \o <<"\n">>, T_sparse, T_nine, T_parens, T_handle}

\* Phone numbers of shared contacts that are no well-formed numbers: a blank,
\* and two digits between blanks.
T_blank == <<" ">>

T_short == <<" ", "1", "2", "\n">>

PayloadPhones == {T_blank, T_short, << >>}

Texts == {T_padded, T_junk}

Phones == {T_phone, << >>}

\* The legacy snapshot orders.json: missing (None), or a file that json.load
\* reads or not, holding a list of records or something else.  A record whose
\* INSERT raises (it is no dict, or holds a value SQLite cannot bind) is "bad".
Snapshot(records) == Some([readable |-> TRUE, is_list |-> TRUE, records |-> records])

Unreadable == Some([readable |-> FALSE, is_list |-> FALSE, records |-> << >>])

NotAList == Some([readable |-> TRUE, is_list |-> FALSE, records |-> << >>])

Legacy(u, oil, c) ==
  [bad |-> FALSE, user_id |-> u, username |-> username[u], oil |-> oils[oil].name,
   volume |-> oils[oil].volume, price |-> {}, currency |-> {}, contact |-> c]

BadRecord ==
  [bad |-> TRUE, user_id |-> 0, username |-> {}, oil |-> "", volume |-> "",
   price |-> {}, currency |-> {}, contact |-> << >>]

\* What main finds at a start.
Snapshots == {None, Snapshot(<<BadRecord, Legacy(3, 4, T_phone)>>)}

\* ------------------------------------------------------------ order ledger
\* f"#{row_id:03}": at least three digits, zero padded.
\* The row id as it is, without the zeros in front.
OrderCodePlain(row_id) == <<"#">> \o IntText(row_id)

\* f"#{row_id:03}"
OrderCode(row_id) ==
  LET d == IntText(row_id)
  IN  <<"#">> \o [i \in 1..(IF Len(d) < 3 THEN 3 - Len(d) ELSE 0) |-> "0"] \o d

\* A numbering that hands out the counter as it stands, without the step.
StaleRowId(rows, seq) == seq

\* INTEGER PRIMARY KEY AUTOINCREMENT: one more than the largest id the table
\* ever held (sqlite_sequence) and than every id it holds now.
NextRowId(rows, seq) ==
  LET held == {rows[i].id : i \in DOMAIN rows} \cup {seq}
  IN  (CHOOSE m \in held : \A k \in held : k <= m) + 1

\* created_at TEXT DEFAULT (datetime('now')): the clock in whole seconds.
DatetimeNow(t) == t \div TicksPerSec

\* INSERT OR REPLACE keyed by the user: a new order of a user takes the place
\* of that user's earlier one.
ReplaceOrder(rows, seq, order, t) ==
  LET row_id == NextRowId(rows, seq)
      kept == SelectSeq(rows, LAMBDA r : r.user_id # order.user_id)
  IN  [rows |-> Append(kept,
                  [id |-> row_id, created_at |-> DatetimeNow(t),
                   user_id |-> order.user_id, username |-> order.username,
                   oil |-> order.oil, volume |-> order.volume,
                   price |-> order.price, currency |-> order.currency,
                   contact |-> order.contact]),
       seq |-> row_id,
       lastrowid |-> row_id]

\* The INSERT of save_order_sql and of the migration loop; `order` holds the
\* seven bound values.  Gives the table, the sequence and c.lastrowid.
InsertOrder(rows, seq, order, t) ==
  LET row_id == NextRowId(rows, seq)
  IN  [rows |-> Append(rows,
                  [id |-> row_id, created_at |-> DatetimeNow(t),
                   user_id |-> order.user_id, username |-> order.username,
                   oil |-> order.oil, volume |-> order.volume,
                   price |-> order.price, currency |-> order.currency,
                   contact |-> order.contact]),
       seq |-> row_id,
       lastrowid |-> row_id]

\* A save that runs its INSERT a second time.
save_order_twice(rows, seq, order, t) ==
  LET first == InsertOrder(rows, seq, order, t)
      r == InsertOrder(first.rows, first.seq, order, t)
  IN  [rows |-> r.rows, seq |-> r.seq, lastrowid |-> r.lastrowid,
       code |-> OrderCode(r.lastrowid)]

\* save_order_sql: one INSERT, returns the code of the new row.
save_order_sql(rows, seq, order, t) ==
  LET r == InsertOrder(rows, seq, order, t)
  IN  [rows |-> r.rows, seq |-> r.seq, lastrowid |-> r.lastrowid,
       code |-> OrderCode(r.lastrowid)]

\* A check that always finds the table empty.
AlwaysEmpty(rows) == TRUE

db_is_empty(rows) == Len(rows) = 0

\* The values bound by the INSERT of the migration for the record o.
Migrated(o) ==
  [user_id |-> o.user_id, username |-> o.username, oil |-> o.oil,
   volume |-> o.volume,
   price |-> IF o.price = None THEN <<"-">> ELSE Get(o.price),
   currency |-> IF o.currency = None THEN "RUB" ELSE Get(o.currency),
   contact |-> o.contact]

\* A loop inside one try: the first record whose INSERT raises ends it.
RECURSIVE MigrateLoopStops(_, _, _, _)
MigrateLoopStops(rows, seq, old, t) ==
  IF old = << >> \/ Head(old).bad THEN [rows |-> rows, seq |-> seq]
  ELSE LET r == InsertOrder(rows, seq, Migrated(Head(old)), t)
       IN  MigrateLoopStops(r.rows, r.seq, Tail(old), t)

\* The loop of migrate_json_to_sql over the records of the snapshot: a record
\* whose INSERT raises is skipped, the rows before it stay.
RECURSIVE MigrateLoop(_, _, _, _)
MigrateLoop(rows, seq, old, t) ==
  IF old = << >> THEN [rows |-> rows, seq |-> seq]
  ELSE IF Head(old).bad THEN MigrateLoop(rows, seq, Tail(old), t)
  ELSE LET r == InsertOrder(rows, seq, Migrated(Head(old)), t)
       IN  MigrateLoop(r.rows, r.seq, Tail(old), t)

\* migrate_json_to_sql: nothing unless orders.json exists, the table is empty
\* and the file reads as a non-empty list.
migrate_json_to_sql(rows, seq, snapshot, t) ==
  LET same == [rows |-> rows, seq |-> seq]
  IN  IF snapshot = None THEN same
      ELSE IF ~db_is_empty(rows) THEN same
      ELSE IF ~Get(snapshot).readable THEN same
      ELSE IF ~Get(snapshot).is_list \/ Get(snapshot).records = << >> THEN same
      ELSE MigrateLoop(rows, seq, Get(snapshot).records, t)

\* --------------------------------------------------------------- overrides
get_override(ov, oil_id) ==
  IF oil_id \in DOMAIN ov THEN ov[oil_id] ELSE [price |-> None, stock |-> None]

\* INSERT OR REPLACE: the row is written anew, its stock NULL.
replace_price(ov, oil_id, price_text) ==
  IF oil_id \in DOMAIN ov
  THEN [ov EXCEPT ![oil_id] = [price |-> price_text, stock |-> None]]
  ELSE ov @@ (oil_id :> [price |-> price_text, stock |-> None])

\* INSERT ... ON CONFLICT(oil_id) DO UPDATE SET price=excluded.price
upsert_price(ov, oil_id, price_text) ==
  IF oil_id \in DOMAIN ov
  THEN [ov EXCEPT ![oil_id].price = price_text]
  ELSE ov @@ (oil_id :> [price |-> price_text, stock |-> None])

\* INSERT ... ON CONFLICT(oil_id) DO UPDATE SET stock=excluded.stock
upsert_stock(ov, oil_id, stock_value) ==
  IF oil_id \in DOMAIN ov
  THEN [ov EXCEPT ![oil_id].stock = stock_value]
  ELSE ov @@ (oil_id :> [price |-> None, stock |-> stock_value])

\* The fields of a catalog entry that the bot's state machine reads, the price
\* as the text str() renders: every use of it is an f-string or the TEXT
\* column.
Entry(base) ==
  [name |-> base.name, volume |-> base.volume, price |-> IntText(base.price),
   currency |-> base.currency]

\* out = base (no copy): the override price is written into the catalog entry.
OverlayInPlace(base, o) ==
  LET price == IF o.price # None /\ strip(Get(o.price)) # << >>
               THEN Get(o.price) ELSE IntText(base.price)
  IN  [out |-> [name |-> base.name, volume |-> base.volume, price |-> price,
                currency |-> base.currency, stock |-> o.stock],
       base |-> [Entry(base) EXCEPT !.price = price]]

\* out = dict(base); out["price"] = price_ovr if it is stored and not blank;
\* out["stock"] = stock_ovr.  Gives out and the catalog entry as the
\* assignments leave it.
Overlay(base, o) ==
  [out |-> [name |-> base.name, volume |-> base.volume,
            price |-> IF o.price # None /\ strip(Get(o.price)) # << >>
                      THEN Get(o.price) ELSE IntText(base.price),
            currency |-> base.currency,
            stock |-> o.stock],
   base |-> Entry(base)]

\* A lookup that reads the catalog only.
get_catalog_oil(ov, oil_id) ==
  IF oil_id \notin DOMAIN oils THEN None
  ELSE Some(Overlay(oils[oil_id], [price |-> None, stock |-> None]).out)

\* get_effective_oil: None for an id the catalog does not hold.
get_effective_oil(ov, oil_id) ==
  IF oil_id \notin DOMAIN oils THEN None
  ELSE Some(Overlay(oils[oil_id], get_override(ov, oil_id)).out)

\* ------------------------------------------------------- contact validator
Digit == {"0", "1", "2", "3", "4", "5", "6", "7", "8", "9"}

Letter ==
  {"a", "b", "c", "d", "e", "f", "g", "h", "i", "j", "k", "l", "m", "n", "o", "p", "q",
   "r", "s", "t", "u", "v", "w", "x", "y", "z",
   "A", "B", "C", "D", "E", "F", "G", "H", "I", "J", "K", "L", "M", "N", "O", "P", "Q",
   "R", "S", "T", "U", "V", "W", "X", "Y", "Z"}

\* [A-Za-z0-9_]
WordChar == Letter \cup Digit \cup {"_"}

\* [\d\-\s\(\)]
PhoneChar == Digit \cup Space \cup {"-", "(", ")"}

AllIn(s, set) == \A i \in DOMAIN s : s[i] \in set

\* \d[\d\-\s\(\)]{7,}\d
PhoneBodyNine(s) ==
  /\ Len(s) >= 9
  /\ s[1] \in Digit
  /\ s[Len(s)] \in Digit
  /\ AllIn(SubSeq(s, 2, Len(s) - 1), PhoneChar)

\* \d[\d\-\s\(\)]{8,}\d
PhoneBody(s) ==
  /\ Len(s) >= 10
  /\ s[1] \in Digit
  /\ s[Len(s)] \in Digit
  /\ AllIn(SubSeq(s, 2, Len(s) - 1), PhoneChar)

\* \+?\d[\d\-\s\(\)]{8,}\d
IsPhone(s) ==
  \/ PhoneBody(s)
  \/ Len(s) >= 1 /\ s[1] = "+" /\ PhoneBody(Tail(s))

\* @[A-Za-z0-9_]{5,}
IsHandle(s) ==
  Len(s) >= 6 /\ s[1] = "@" /\ AllIn(Tail(s), WordChar)

StartsWith(s, p) == Len(s) >= Len(p) /\ SubSeq(s, 1, Len(p)) = p

\* https?://t\.me/[A-Za-z0-9_]+
IsLink(s) ==
  \E p \in {<<"h", "t", "t", "p", ":", "/", "/", "t", ".", "m", "e", "/">>,
            <<"h", "t", "t", "p", "s", ":", "/", "/", "t", ".", "m", "e", "/">>} :
     /\ StartsWith(s, p)
     /\ Len(s) > Len(p)
     /\ AllIn(SubSeq(s, Len(p) + 1, Len(s)), WordChar)

\* The pattern without its anchors: a match anywhere in the text.
PHONE_RE_search(text) ==
  \E i \in 0..Len(text) :
     \E j \in i..Len(text) :
        LET core == SubSeq(text, i + 1, j)
        IN  IsPhone(core) \/ IsHandle(core) \/ IsLink(core)

\* PHONE_RE.match(text): ^\s*( phone | username | link )\s*$
PHONE_RE(text) ==
  \E i \in {k \in 0..Len(text) : AllIn(SubSeq(text, 1, k), Space)} :
     \E j \in {k \in i..Len(text) : AllIn(SubSeq(text, k + 1, Len(text)), Space)} :
        LET core == SubSeq(text, i + 1, j)
        IN  IsPhone(core) \/ IsHandle(core) \/ IsLink(core)

\* validate_contact: (ok, normalized text | error)
validate_contact(text) ==
  IF text = << >> THEN [ok |-> FALSE, norm |-> << >>, err |-> "empty_contact"]
  ELSE IF ~PHONE_RE(text) THEN [ok |-> FALSE, norm |-> << >>, err |-> "bad_contact"]
  ELSE [ok |-> TRUE, norm |-> strip(text), err |-> "none"]

\* ------------------------------------------------------------------- state
VARIABLES
  now,              \* the clock, in ticks
  orders,           \* table orders, in rowid order
  sqlite_sequence,  \* the AUTOINCREMENT counter of table orders
  oil_overrides,    \* table oil_overrides: oil_id -> [price, stock]
  user_data,        \* context.user_data: user -> {} or {ordering}
  LAST_ORDER_AT,    \* user -> clock reading of the last recorded order
  boot_rows         \* history: rows in the ledger when polling started

vars ==
  <<now, orders, sqlite_sequence, oil_overrides, user_data, LAST_ORDER_AT, boot_rows>>

\* The state a handler finds.
St ==
  [now |-> now, orders |-> orders, sqlite_sequence |-> sqlite_sequence,
   oil_overrides |-> oil_overrides, user_data |-> user_data,
   LAST_ORDER_AT |-> LAST_ORDER_AT]

\* The handler leaves the state of r.
Apply(r) ==
  /\ now' = r.st.now
  /\ orders' = r.st.orders
  /\ sqlite_sequence' = r.st.sqlite_sequence
  /\ oil_overrides' = r.st.oil_overrides
  /\ user_data' = r.st.user_data
  /\ LAST_ORDER_AT' = r.st.LAST_ORDER_AT
  /\ boot_rows' = boot_rows

is_admin(user_id) == user_id \in Range(ADMIN_IDS)

\* What one handler run sent: the reply to the caller (a tag), the seconds of a
\* cooldown reply, the order code of a confirmation, the admins the new-order
\* notification was attempted to and those it did not reach, whether the
\* handler ended by raising (error_handler then reports to the admins), and
\* for a listing or export the ids of the rows shown, the page and the buttons.
Sent(reply) ==
  [reply |-> reply, remain |-> 0, code |-> << >>, notified |-> << >>,
   undelivered |-> {}, raised |-> FALSE, rows |-> << >>, page |-> 0, pages |-> 0,
   nav |-> {}]

\* A reply_text outside any try that raised.
Raised(reply) == [Sent(reply) EXCEPT !.raised = TRUE]

\* await ...reply_text(tag) outside any try: sent, or raised.
Reply(delivered, tag) == IF delivered THEN Sent(tag) ELSE Raised(tag)

Result(st, sent) == [st |-> st, sent |-> sent]

\* A start that finds the cooldown stamps of the run before.
main_keeps_stamps(st, snapshot) ==
  LET m == migrate_json_to_sql(st.orders, st.sqlite_sequence, snapshot, st.now)
  IN  Result([st EXCEPT !.orders = m.rows,
                        !.sqlite_sequence = m.seq,
                        !.user_data = [u \in Users |-> {}]],
             Sent("none"))

\* ---------------------------------------------------------- main(): startup
\* init_db and migrate_json_to_sql on the tables found; user_data and
\* LAST_ORDER_AT start empty.  snapshot is orders.json as found at this start.
main(st, snapshot) ==
  LET m == migrate_json_to_sql(st.orders, st.sqlite_sequence, snapshot, st.now)
  IN  Result([st EXCEPT !.orders = m.rows,
                        !.sqlite_sequence = m.seq,
                        !.user_data = [u \in Users |-> {}],
                        !.LAST_ORDER_AT = << >>],
             Sent("none"))

\* The first start, on empty tables.
Fresh ==
  [now |-> 0, orders |-> << >>, sqlite_sequence |-> 0, oil_overrides |-> << >>,
   user_data |-> [u \in Users |-> {}], LAST_ORDER_AT |-> << >>]

Init ==
  \E snapshot \in Snapshots :
     \E r \in {main(Fresh, snapshot)} :
         /\ now = r.st.now
         /\ orders = r.st.orders
         /\ sqlite_sequence = r.st.sqlite_sequence
         /\ oil_overrides = r.st.oil_overrides
         /\ user_data = r.st.user_data
         /\ LAST_ORDER_AT = r.st.LAST_ORDER_AT
         /\ boot_rows = Len(r.st.orders)

\* The process is stopped and started again.
Restart ==
  \E snapshot \in Snapshots :
     \E r \in {main(St, snapshot)} :
         /\ now' = r.st.now
         /\ orders' = r.st.orders
         /\ sqlite_sequence' = r.st.sqlite_sequence
         /\ oil_overrides' = r.st.oil_overrides
         /\ user_data' = r.st.user_data
         /\ LAST_ORDER_AT' = r.st.LAST_ORDER_AT
         /\ boot_rows' = Len(r.st.orders)

\* Time passes between two updates.
Tick ==
  /\ \E t \in Instants : t > now /\ now' = t
  /\ UNCHANGED <<orders, sqlite_sequence, oil_overrides, user_data, LAST_ORDER_AT,
                 boot_rows>>

\* ------------------------------------------------------ show_oil: order_<id>
\* `if not st`: a product without a stock override counts as out of stock too.
\* A test that finds every product in stock.
NeverOutOfStock(eff) == FALSE

OutOfStockOrUnset(eff) == eff.stock = None \/ Get(eff.stock) = 0

\* st = eff.get("stock"); st is not None and st == 0
OutOfStock(eff) == eff.stock # None /\ Get(eff.stock) = 0

\* The caller pressed "place an order" for oil_id.  Every reply is awaited
\* outside any try; "ordering" is stored after the prompt was sent, so a
\* prompt that raises (delivered = FALSE) leaves it as it was.
show_oil(st, u, oil_id, delivered) ==
  LET eff == get_effective_oil(st.oil_overrides, oil_id)
  IN  IF eff = None THEN Result(st, Reply(delivered, "unavailable"))
      ELSE IF OutOfStock(Get(eff)) THEN Result(st, Reply(delivered, "out_of_stock"))
      ELSE IF ~delivered THEN Result(st, Raised("send_contact"))
      ELSE Result([st EXCEPT !.user_data[u] = Some(oil_id)], Sent("send_contact"))

\* ------------------------------------------------- _create_order_for_user
\* The outcomes of the I/O of one submission: whether the INSERT went through,
\* whether the reply to the caller was delivered, and the admins whose
\* notification raised.
IOs ==
  {[stored |-> FALSE, delivered |-> TRUE, lost |-> {}],
   [stored |-> TRUE, delivered |-> FALSE, lost |-> {}]}
  \cup {[stored |-> TRUE, delivered |-> TRUE, lost |-> l] : l \in SUBSET Range(ADMIN_IDS)}

\* The whole seconds of (W - elapsed), rounded down.
RemainRoundedDown(t, last_at) ==
  (ORDER_COOLDOWN_SEC * TicksPerSec - (t - last_at)) \div TicksPerSec

\* remain = ORDER_COOLDOWN_SEC - int(now - last)
Remain(t, last_at) == ORDER_COOLDOWN_SEC - ((t - last_at) \div TicksPerSec)

\* A pop on a user_data shared by all users.
PopOrderingAll(ud, u) == [x \in DOMAIN ud |-> {}]

\* context.user_data.pop("ordering", None)
PopOrdering(ud, u) == [ud EXCEPT ![u] = {}]

\* The order dict built from the effective product and the contact.
OrderOf(u, eff, contact) ==
  [user_id |-> u, username |-> username[u], oil |-> eff.name, volume |-> eff.volume,
   price |-> eff.price, currency |-> eff.currency, contact |-> contact]

\* A handler that leaves the cooldown map as it was.
ForgetOrderAt(m, u, t) == m

\* A map that keeps the stamp of the last user only.
RecordOrderAtOnly(m, u, t) == [x \in {u} |-> t]

\* LAST_ORDER_AT[user.id] = now
RecordOrderAt(m, u, t) == [x \in DOMAIN m \cup {u} |-> IF x = u THEN t ELSE m[x]]

\* A loop inside one try: the first notification that raises ends it.
RECURSIVE NotifyUntilFailure(_, _)
NotifyUntilFailure(admins, lost) ==
  IF admins = << >> THEN << >>
  ELSE IF Head(admins) \in lost THEN <<Head(admins)>>
  ELSE <<Head(admins)>> \o NotifyUntilFailure(Tail(admins), lost)

\* for admin_id in ADMIN_IDS: try: send_message(...) except: log.  The admins
\* a notification was attempted to, in order; `lost` are those whose send
\* raises.
RECURSIVE NotifyAdmins(_, _)
NotifyAdmins(admins, lost) ==
  IF admins = << >> THEN << >>
  ELSE <<Head(admins)>> \o NotifyAdmins(Tail(admins), lost)

\* A handler that catches the failed INSERT and ends the conversation.
InsertSwallowed(st, u) ==
  Result([st EXCEPT !.user_data = PopOrdering(st.user_data, u)], Sent("none"))

\* save_order_sql raised: the exception leaves the handler, nothing after the
\* call runs.
InsertRaised(st, u) == Result(st, Raised("none"))

\* A handler that takes one unit off the stored stock with every order.
SaveAndDecrement(st, u, eff, contact, io) ==
  IF ~io.stored THEN InsertRaised(st, u)
  ELSE LET r == save_order_sql(st.orders, st.sqlite_sequence,
                               OrderOf(u, eff, contact), st.now)
           sel == Get(st.user_data[u])
           saved == [st EXCEPT
                       !.orders = r.rows, !.sqlite_sequence = r.seq,
                       !.oil_overrides =
                          IF eff.stock = None THEN @
                          ELSE upsert_stock(@, sel, Some(Get(eff.stock) - 1))]
       IN  IF ~io.delivered
           THEN Result(saved, [Raised("created") EXCEPT !.code = r.code])
           ELSE Result([saved EXCEPT
                          !.LAST_ORDER_AT = RecordOrderAt(st.LAST_ORDER_AT, u, st.now),
                          !.user_data = PopOrdering(st.user_data, u)],
                       [Sent("created") EXCEPT
                          !.code = r.code,
                          !.notified = NotifyAdmins(ADMIN_IDS, io.lost),
                          !.undelivered = io.lost])

\* A handler that stamps the cooldown and ends the conversation right after
\* the INSERT, before it sends anything.
SaveStampConfirm(st, u, eff, contact, io) ==
  IF ~io.stored THEN InsertRaised(st, u)
  ELSE LET r == save_order_sql(st.orders, st.sqlite_sequence,
                               OrderOf(u, eff, contact), st.now)
           saved == [st EXCEPT !.orders = r.rows, !.sqlite_sequence = r.seq,
                       !.LAST_ORDER_AT = RecordOrderAt(st.LAST_ORDER_AT, u, st.now),
                       !.user_data = PopOrdering(st.user_data, u)]
       IN  IF ~io.delivered
           THEN Result(saved, [Raised("created") EXCEPT !.code = r.code])
           ELSE Result(saved,
                       [Sent("created") EXCEPT
                          !.code = r.code,
                          !.notified = NotifyAdmins(ADMIN_IDS, io.lost),
                          !.undelivered = io.lost])

\* The handler from the INSERT on: save_order_sql, the confirmation (outside
\* any try), one notification per admin (each in its own try), the cooldown
\* stamp, the end of the conversation.
SaveAndConfirm(st, u, eff, contact, io) ==
  IF ~io.stored THEN InsertRaised(st, u)
  ELSE LET r == save_order_sql(st.orders, st.sqlite_sequence,
                               OrderOf(u, eff, contact), st.now)
           saved == [st EXCEPT !.orders = r.rows, !.sqlite_sequence = r.seq]
       IN  IF ~io.delivered
           THEN Result(saved, [Raised("created") EXCEPT !.code = r.code])
           ELSE Result([saved EXCEPT
                          !.LAST_ORDER_AT = RecordOrderAt(st.LAST_ORDER_AT, u, st.now),
                          !.user_data = PopOrdering(st.user_data, u)],
                       [Sent("created") EXCEPT
                          !.code = r.code,
                          !.notified = NotifyAdmins(ADMIN_IDS, io.lost),
                          !.undelivered = io.lost])

\* An order step that falls back on product 3 when nothing is selected.
_create_order_default(st, u, contact, io) ==
  IF u \in DOMAIN st.LAST_ORDER_AT /\ Remain(st.now, st.LAST_ORDER_AT[u]) > 0
  THEN Result(st, [Reply(io.delivered, "cooldown") EXCEPT
                     !.remain = Remain(st.now, st.LAST_ORDER_AT[u])])
  ELSE LET sel == IF st.user_data[u] = {} THEN 3 ELSE Get(st.user_data[u])
           eff == get_effective_oil(st.oil_overrides, sel)
           gone == eff = None
           empty == ~gone /\ OutOfStock(Get(eff))
           tag == IF gone THEN "unavailable" ELSE "out_of_stock"
       IN  IF gone \/ empty
           THEN IF ~io.delivered THEN Result(st, Raised(tag))
                ELSE Result([st EXCEPT !.user_data = PopOrdering(st.user_data, u)],
                            Sent(tag))
           ELSE SaveAndConfirm(st, u, Get(eff), contact, io)

_create_order_for_user(st, u, contact, io) ==
  IF u \in DOMAIN st.LAST_ORDER_AT /\ Remain(st.now, st.LAST_ORDER_AT[u]) > 0
  THEN Result(st, [Reply(io.delivered, "cooldown") EXCEPT
                     !.remain = Remain(st.now, st.LAST_ORDER_AT[u])])
  ELSE IF st.user_data[u] = {} THEN Result(st, Reply(io.delivered, "use_catalog"))
  ELSE LET eff == get_effective_oil(st.oil_overrides, Get(st.user_data[u]))
           gone == eff = None
           empty == ~gone /\ OutOfStock(Get(eff))
           tag == IF gone THEN "unavailable" ELSE "out_of_stock"
       IN  IF gone \/ empty
           THEN IF ~io.delivered THEN Result(st, Raised(tag))
                ELSE Result([st EXCEPT !.user_data = PopOrdering(st.user_data, u)],
                            Sent(tag))
           ELSE SaveAndConfirm(st, u, Get(eff), contact, io)

\* handle_contact: a shared contact; phone is its number (<< >> if none).
handle_contact(st, u, phone, io) ==
  IF phone = << >> THEN Result(st, Reply(io.delivered, "no_number"))
  ELSE _create_order_for_user(st, u, strip(phone), io)

\* A text handler that ends the conversation when the text is no contact.
handle_message_reset(st, u, text, io) ==
  LET v == validate_contact(text)
  IN  IF ~v.ok
      THEN Result([st EXCEPT !.user_data = PopOrdering(st.user_data, u)],
                  Reply(io.delivered, v.err))
      ELSE _create_order_for_user(st, u, v.norm, io)

\* handle_message: a text that is not a command.
handle_message(st, u, text, io) ==
  LET v == validate_contact(text)
  IN  IF ~v.ok THEN Result(st, Reply(io.delivered, v.err))
      ELSE _create_order_for_user(st, u, v.norm, io)

\* ------------------------------------------------------------------ cancel
\* A cancel that also drops the caller's cooldown stamp.
cancel_reset(st, u) ==
  Result([st EXCEPT !.user_data = PopOrdering(st.user_data, u),
                    !.LAST_ORDER_AT = [x \in DOMAIN @ \ {u} |-> @[x]]],
         Sent(IF st.user_data[u] # {} THEN "cancelled" ELSE "nothing_to_cancel"))

\* cancel: "ordering" is popped before the reply is sent, so the state left
\* does not depend on the delivery of the reply.
cancel(st, u) ==
  IF st.user_data[u] # {}
  THEN Result([st EXCEPT !.user_data = PopOrdering(st.user_data, u)], Sent("cancelled"))
  ELSE Result(st, Sent("nothing_to_cancel"))

\* ------------------------------------------------- admin: /setprice, /setstock
ResetWords == {<<"r", "e", "s", "e", "t">>, <<"n", "o", "n", "e">>, <<"n", "u", "l", "l">>, <<"-">>}

UnlimitedWords ==
  {<<"i", "n", "f">>, <<"r", "e", "s", "e", "t">>, <<"n", "o", "n", "e">>,
   <<"n", "u", "l", "l">>, <<"-", "1">>}

\* A check that lets every id through.
AnyId(oil_id) == TRUE

\* oil_id in oils
InCatalog(oil_id) == oil_id \in DOMAIN oils

\* args is context.args: the tokens after the command.
setprice_cmd(st, u, args) ==
  IF ~is_admin(u) THEN Result(st, Sent("none"))
  ELSE IF Len(args) < 2 THEN Result(st, Sent("usage"))
  ELSE IF ParseInt(args[1]) = None THEN Result(st, Sent("id_not_a_number"))
  ELSE IF ~InCatalog(Get(ParseInt(args[1]))) THEN Result(st, Sent("not_in_catalog"))
  ELSE LET oil_id == Get(ParseInt(args[1]))
           price_arg == strip(join(Tail(args)))
       IN  IF lower(price_arg) \in ResetWords
           THEN Result([st EXCEPT !.oil_overrides = upsert_price(@, oil_id, None)],
                       Sent("price_reset"))
           ELSE Result([st EXCEPT !.oil_overrides = upsert_price(@, oil_id, Some(price_arg))],
                       Sent("price_set"))

setstock_cmd(st, u, args) ==
  IF ~is_admin(u) THEN Result(st, Sent("none"))
  ELSE IF Len(args) < 2 THEN Result(st, Sent("usage"))
  ELSE IF ParseInt(args[1]) = None THEN Result(st, Sent("id_not_a_number"))
  ELSE IF ~InCatalog(Get(ParseInt(args[1]))) THEN Result(st, Sent("not_in_catalog"))
  ELSE LET oil_id == Get(ParseInt(args[1]))
           qty_arg == lower(strip(args[2]))
       IN  IF qty_arg \in UnlimitedWords
           THEN Result([st EXCEPT !.oil_overrides = upsert_stock(@, oil_id, None)],
                       Sent("stock_unlimited"))
           ELSE IF ParseInt(qty_arg) = None \/ Get(ParseInt(qty_arg)) < 0
           THEN Result(st, Sent("bad_quantity"))
           ELSE Result([st EXCEPT !.oil_overrides =
                                     upsert_stock(@, oil_id, Some(Get(ParseInt(qty_arg))))],
                       Sent("stock_set"))

\* unknown_command: the last handler, for a command no other handler took.
unknown_command(st, u) == Result(st, Sent("unknown_command"))

\* A registration without the filter: the handler runs for every caller.
Unfiltered(st, u, r) == r

\* CommandHandler(..., filters=admin_filter): the handler runs for a caller of
\* ADMIN_IDS; from anyone else the command falls through to unknown_command.
AdminCommand(st, u, r) == IF is_admin(u) THEN r ELSE unknown_command(st, u)

\* The SELECT of a read path (fetch_orders_page, fetch_stats, the exports)
\* runs in try/finally with no except, after the handler's own test of the
\* caller: if it raises (readable = FALSE) the exception leaves the handler,
\* nothing was sent, and error_handler reports to the admins.
Reading(st, u, readable, r) ==
  IF is_admin(u) /\ ~readable THEN Result(st, Raised("none")) ELSE r

\* The argument lists the admin types.
PriceArgs ==
  {<<<<"3">>, <<"1", "9", "9", "0">>>>, <<<<"3">>, <<"R", "e", "s", "e", "t">>>>,
   <<<<"9">>, <<"1", "9", "9", "0">>>>, <<<<"3">>>>}

StockArgs ==
  {<<<<"3">>, <<"0">>>>, <<<<"3">>, <<"2">>>>, <<<<"3">>, <<"i", "n", "f">>>>,
   <<<<"3">>, <<"-", "5">>>>, <<<<"9">>, <<"1">>>>, <<<<"x">>, <<"1">>>>}

\* ------------------------------------------------------------------- /orders
PAGE_SIZE == 10

Max(a, b) == IF a >= b THEN a ELSE b

\* A page query whose offset counts the pages from 0.
fetch_orders_page_skewed(rows, page, page_size) ==
  LET p == Max(1, page)
      offset == p * page_size
      total == Len(rows)
      n == IF total - offset <= 0 THEN 0
           ELSE IF total - offset < page_size THEN total - offset ELSE page_size
  IN  [rows |-> [k \in 1..n |-> rows[total - offset - k + 1]], total |-> total]

\* fetch_orders_page: ORDER BY id DESC LIMIT page_size OFFSET (page-1)*page_size
fetch_orders_page(rows, page, page_size) ==
  LET p == Max(1, page)
      offset == (p - 1) * page_size
      total == Len(rows)
      n == IF total - offset <= 0 THEN 0
           ELSE IF total - offset < page_size THEN total - offset ELSE page_size
  IN  [rows |-> [k \in 1..n |-> rows[total - offset - k + 1]], total |-> total]

\* _render_orders_page past the check of the caller: the page, the rows on it
\* and the buttons.
RenderPage(st, requested) ==
  LET page == Max(1, requested)
      first == fetch_orders_page(st.orders, page, PAGE_SIZE)
  IN  IF first.total = 0 THEN Result(st, Sent("no_orders"))
      ELSE LET total_pages == (first.total + PAGE_SIZE - 1) \div PAGE_SIZE
               shown == IF page > total_pages THEN total_pages ELSE page
               got == IF page > total_pages
                      THEN fetch_orders_page(st.orders, shown, PAGE_SIZE) ELSE first
           IN  Result(st,
                 [Sent("orders_page") EXCEPT
                    !.rows = [k \in DOMAIN got.rows |-> got.rows[k].id],
                    !.page = shown,
                    !.pages = total_pages,
                    !.nav = {h \in {"prev", "next"} :
                               \/ h = "prev" /\ shown > 1
                               \/ h = "next" /\ shown < total_pages}])

\* A renderer that does not look at the caller.
_render_orders_page_open(st, u, requested, callback) == RenderPage(st, requested)

\* _render_orders_page: its sends are wrapped, none raises.
_render_orders_page(st, u, requested, callback) ==
  IF ~is_admin(u)
  THEN Result(st, Sent(IF callback THEN "no_access" ELSE "no_access_your_id"))
  ELSE RenderPage(st, requested)

\* /orders [page]: a page that does not parse is page 1.
show_orders(st, u, args) ==
  _render_orders_page(st, u,
     IF args # << >> /\ ParseInt(args[1]) # None THEN Get(ParseInt(args[1])) ELSE 1,
     FALSE)

\* The pagination button orders_page_<n>, registered without admin_filter.
orders_page_cb(st, u, page) == _render_orders_page(st, u, page, TRUE)

PageArgs == {<< >>, <<<<"2">>>>, <<<<"x">>>>}

\* ----------------------------------------------------------------- exports
\* export_csv / export_xlsx: every row, ORDER BY id ASC.
export_csv(st, u) ==
  IF ~is_admin(u) THEN Result(st, Sent("admins_only"))
  ELSE IF st.orders = << >> THEN Result(st, Sent("no_orders"))
  ELSE Result(st, [Sent("document") EXCEPT
                     !.rows = [k \in DOMAIN st.orders |-> st.orders[k].id]])

\* export_xlsx: the same rows in a workbook.
export_xlsx(st, u) ==
  IF ~is_admin(u) THEN Result(st, Sent("admins_only"))
  ELSE IF st.orders = << >> THEN Result(st, Sent("no_orders"))
  ELSE Result(st, [Sent("document_xlsx") EXCEPT
                     !.rows = [k \in DOMAIN st.orders |-> st.orders[k].id]])

\* ------------------------------------------------------------------- /stats
\* fetch_stats and the reply: the total and the number of distinct users.
stats(st, u) ==
  IF ~is_admin(u) THEN Result(st, Sent("admins_only"))
  ELSE Result(st, [Sent("stats") EXCEPT
                     !.rows = <<Len(st.orders),
                                Cardinality({st.orders[k].user_id : k \in DOMAIN st.orders})>>])

\* --------------------------------------------------------- /stock, /version
\* stock_cmd: one line per product of the catalog, with its effective stock
\* and price; silent for a caller who is no admin.
stock_cmd(st, u) ==
  IF ~is_admin(u) THEN Result(st, Sent("none"))
  ELSE Result(st, [Sent("stock_summary") EXCEPT
                     !.rows = [oid \in DOMAIN oils |->
                                 LET eff == Get(get_effective_oil(st.oil_overrides, oid))
                                 IN  <<eff.stock, eff.price>>]])

\* The start-menu button admin_stock_summary, registered for every user.
admin_stock_summary(st, u) ==
  IF ~is_admin(u) THEN Result(st, Sent("admins_only_alert")) ELSE stock_cmd(st, u)

\* version_cmd: the VERSION file, found or not; silent for a caller who is no
\* admin.
version_cmd(st, u, found) ==
  IF ~is_admin(u) THEN Result(st, Sent("none"))
  ELSE Result(st, Sent(IF found THEN "version" ELSE "no_version"))

\* ----------------------------------------------------------------- actions
\* The ledger of the model holds at most MaxOrders rows.
Bounded(r) == Len(r.st.orders) <= MaxOrders

\* (\E r \in {e} binds r to the value of e.)
PressOrder ==
  \E u \in Users, oil_id \in PickIds, delivered \in BOOLEAN :
     \E r \in {show_oil(St, u, oil_id, delivered)} : Apply(r)

ShareContact ==
  \E u \in Users, phone \in Phones, io \in IOs :
     \E r \in {handle_contact(St, u, phone, io)} : Bounded(r) /\ Apply(r)

TypeText ==
  \E u \in Users, text \in Texts, io \in IOs :
     \E r \in {handle_message(St, u, text, io)} : Bounded(r) /\ Apply(r)

Cancel == \E u \in Users : \E r \in {cancel(St, u)} : Apply(r)

SetPrice ==
  \E u \in Users, args \in PriceArgs :
     \E r \in {AdminCommand(St, u, setprice_cmd(St, u, args))} : Apply(r)

SetStock ==
  \E u \in Users, args \in StockArgs :
     \E r \in {AdminCommand(St, u, setstock_cmd(St, u, args))} : Apply(r)

ListOrders ==
  \/ \E u \in Users, args \in PageArgs, readable \in BOOLEAN :
        \E r \in {AdminCommand(St, u, Reading(St, u, readable, show_orders(St, u, args)))} :
           Apply(r)
  \/ \E u \in Users, page \in 1..2, readable \in BOOLEAN :
        \E r \in {Reading(St, u, readable, orders_page_cb(St, u, page))} : Apply(r)

Export ==
  \/ \E u \in Users, readable \in BOOLEAN :
        \E r \in {AdminCommand(St, u, Reading(St, u, readable, export_csv(St, u)))} :
           Apply(r)
  \/ \E u \in Users, readable \in BOOLEAN :
        \E r \in {AdminCommand(St, u, Reading(St, u, readable, export_xlsx(St, u)))} :
           Apply(r)

Stats ==
  \E u \in Users, readable \in BOOLEAN :
     \E r \in {AdminCommand(St, u, Reading(St, u, readable, stats(St, u)))} : Apply(r)

StockSummary ==
  \/ \E u \in Users : \E r \in {AdminCommand(St, u, stock_cmd(St, u))} : Apply(r)
  \/ \E u \in Users : \E r \in {admin_stock_summary(St, u)} : Apply(r)

Version ==
  \E u \in Users, found \in BOOLEAN :
     \E r \in {AdminCommand(St, u, version_cmd(St, u, found))} : Apply(r)

\* Every handler, at one clock reading.
Next ==
  \/ Restart
  \/ PressOrder
  \/ ShareContact
  \/ TypeText
  \/ Cancel
  \/ SetPrice
  \/ SetStock
  \/ ListOrders
  \/ Export
  \/ Stats
  \/ StockSummary
  \/ Version

Spec == Init /\ [][Next]_vars

\* The intake handlers as time passes, with no admin at work.
NextClock ==
  \/ Tick
  \/ Restart
  \/ PressOrder
  \/ ShareContact
  \/ TypeText
  \/ Cancel

SpecClock == Init /\ [][NextClock]_vars

\* The listing of ledgers of every length up to MaxRows: the admin orders
\* again and again, a restart ending each cooldown.
OrderMore ==
  \E r \in {handle_contact(St, 1, T_phone,
                            [stored |-> TRUE, delivered |-> TRUE, lost |-> {}])} :
     Len(r.st.orders) <= MaxRows /\ Apply(r)

NextPages ==
  \/ Restart
  \/ PressOrder
  \/ OrderMore
  \/ Cancel
  \/ ListOrders

SpecPages == Init /\ [][NextPages]_vars

\* Ordering by shared contact next to the admin's price and stock commands.
NextStock ==
  \/ PressOrder
  \/ ShareContact
  \/ SetPrice
  \/ SetStock
  \/ Restart

SpecStock == Init /\ [][NextStock]_vars

\* A contact message whose number is not a well-formed one.
SharePayload ==
  \E u \in Users, phone \in PayloadPhones, io \in IOs :
     \E r \in {handle_contact(St, u, phone, io)} : Bounded(r) /\ Apply(r)

\* A text message carrying a contact of one of the other shapes.
TypeContact ==
  \E u \in Users, text \in ContactTexts, io \in IOs :
     \E r \in {handle_message(St, u, text, io)} : Bounded(r) /\ Apply(r)

NextContact ==
  \/ Restart
  \/ PressOrder
  \/ TypeContact
  \/ Cancel

SpecContact == Init /\ [][NextContact]_vars

\* Ordering by text and by contact messages of any number.
NextPayload ==
  \/ Restart
  \/ PressOrder
  \/ TypeText
  \/ SharePayload
  \/ Cancel

SpecPayload == Init /\ [][NextPayload]_vars

\* ------------------------------------------------------------------ claims
\* The submissions that pass the handlers' own checks of the payload: a shared
\* contact with a number, and free texts the validator accepts.
ValidTexts == {T_handle, T_padded}

Submissions(st, u, io) ==
  {handle_contact(st, u, T_phone, io)} \cup
  {handle_message(st, u, text, io) : text \in ValidTexts}

\* The product is in the catalog and the stock stored for it, if any, is not 0.
InStock(ov, oil_id) ==
  /\ oil_id \in DOMAIN oils
  /\ ~(oil_id \in DOMAIN ov /\ ov[oil_id].stock = {0})

\* C1: the ids of the ledger, read in insertion order, strictly increase, so
\* they are pairwise distinct, whether a row was inserted by a submission or
\* by the migration; and the id counter is never behind an id handed out.
C1_IdsIncrease ==
  /\ \A i, j \in DOMAIN orders : i < j => orders[i].id < orders[j].id
  /\ \A i \in DOMAIN orders : orders[i].id <= sqlite_sequence

\* A ledger that holds a migrated row followed by a submitted row of another
\* user.
C1_Witness ==
  /\ boot_rows = 1
  /\ Len(orders) = 2
  /\ orders[1].user_id # orders[2].user_id

\* C2: no step of any handler, nor a restart with its migration call, removes
\* a row of the ledger or changes a field of one: the ledger before the step
\* is a prefix of the ledger after it.
C2_AppendOnly ==
  [][/\ Len(orders') >= Len(orders)
     /\ \A i \in DOMAIN orders : orders'[i] = orders[i]]_vars

\* A full ledger whose first row still carries the catalog price of its
\* product after an admin stored another price for it.
C2_Witness ==
  /\ Len(orders) = MaxOrders
  /\ orders[1].oil = oils[3].name
  /\ orders[1].price = IntText(oils[3].price)
  /\ Get(get_effective_oil(oil_overrides, 3)).price # orders[1].price

\* The cooldown window in ticks.
WindowTicks == ORDER_COOLDOWN_SEC * TicksPerSec

\* The handler ran to its end on an order: the confirmation was sent.
Succeeded(r) == r.sent.reply = "created" /\ ~r.sent.raised

\* C3: a submission that succeeds at T stamps the user's cooldown with T; from
\* then on, in the same run of the process, every submission of the user (a
\* shared contact or a valid text) less than W after T is refused with the
\* cooldown reply and leaves the state, the ledger included, as it was; and a
\* submission W or more after T, with an available product selected and the
\* INSERT going through, adds the user's order to the ledger.
C3_Cooldown ==
  \A u \in Users, io \in IOs :
     \A r \in Submissions(St, u, io) :
        /\ Succeeded(r) =>
              u \in DOMAIN r.st.LAST_ORDER_AT /\ r.st.LAST_ORDER_AT[u] = now
        /\ u \in DOMAIN LAST_ORDER_AT =>
              LET elapsed == now - LAST_ORDER_AT[u]
              IN  /\ elapsed < WindowTicks =>
                        r.sent.reply = "cooldown" /\ r.st = St
                  /\ ( /\ elapsed >= WindowTicks
                       /\ user_data[u] # {}
                       /\ InStock(oil_overrides, Get(user_data[u]))
                       /\ io.stored ) =>
                        /\ r.sent.reply = "created"
                        /\ Len(r.st.orders) = Len(orders) + 1
                        /\ r.st.orders[Len(orders) + 1].user_id = u

\* Exactly W after a user's order, the user has a product selected again.
C3_Witness ==
  \E u \in DOMAIN LAST_ORDER_AT :
     /\ now - LAST_ORDER_AT[u] = WindowTicks
     /\ user_data[u] # {}
     /\ \E i \in DOMAIN orders : orders[i].user_id = u

\* C4 (as the code computes it): a submission refused by the cooldown at
\* T + e, 0 <= e < W, reports W less the whole seconds of e, which is W - e
\* rounded up to an integer.
C4_RemainRoundedUp ==
  \A u \in DOMAIN LAST_ORDER_AT, io \in IOs :
     LET left == WindowTicks - (now - LAST_ORDER_AT[u])
     IN  left > 0 =>
           \A r \in Submissions(St, u, io) :
              /\ r.sent.reply = "cooldown"
              /\ r.sent.remain = (left + TicksPerSec - 1) \div TicksPerSec

\* A fraction of a second after a user's order.
C4_Witness ==
  \E u \in DOMAIN LAST_ORDER_AT :
     /\ now - LAST_ORDER_AT[u] < WindowTicks
     /\ (now - LAST_ORDER_AT[u]) % TicksPerSec # 0

\* C4 as stated: the seconds reported are W - e rounded down.
C4_Claimed ==
  \A u \in DOMAIN LAST_ORDER_AT, io \in IOs :
     LET left == WindowTicks - (now - LAST_ORDER_AT[u])
     IN  left > 0 =>
           \A r \in Submissions(St, u, io) :
              /\ r.sent.reply = "cooldown"
              /\ r.sent.remain = left \div TicksPerSec

\* C5 as stated: two rows that the same user submitted in this run of the
\* process (rows past those found at the start) are at least W apart.
C5_Claimed ==
  \A i, j \in DOMAIN orders :
     (boot_rows < i /\ i < j /\ orders[i].user_id = orders[j].user_id) =>
        orders[j].created_at - orders[i].created_at >= ORDER_COOLDOWN_SEC

\* Every message that reaches a submission handler: the valid submissions, a
\* text that is no contact and a contact payload without a number.
Messages(st, u, io) ==
  Submissions(st, u, io) \cup
  {handle_message(st, u, T_junk, io), handle_contact(st, u, << >>, io)}

\* The cooldown refuses the user now.
CoolingDown(u) ==
  u \in DOMAIN LAST_ORDER_AT /\ now - LAST_ORDER_AT[u] < WindowTicks

\* C6: no run of a submission handler inserts more than one row or touches a
\* row already there; a run that succeeds (the user had a product selected and
\* has none after it) leaves the ledger longer by exactly one row, whose user
\* is the submitter and whose code is the one confirmed; and a run whose
\* INSERT raises leaves the ledger as it was, with no second attempt.
C6_OneInsert ==
  \A u \in Users, io \in IOs :
     \A r \in Messages(St, u, io) :
        /\ Len(r.st.orders) \in {Len(orders), Len(orders) + 1}
        /\ SubSeq(r.st.orders, 1, Len(orders)) = orders
        /\ Succeeded(r) =>
              /\ user_data[u] # {}
              /\ r.st.user_data[u] = {}
              /\ Len(r.st.orders) = Len(orders) + 1
              /\ r.st.orders[Len(orders) + 1].user_id = u
              /\ r.sent.code = OrderCode(r.st.orders[Len(orders) + 1].id)
        /\ ~io.stored => r.st.orders = orders

\* A user whose submission succeeded in this run: the row is in the ledger,
\* the stamp is set and the selection is gone.
C6_Witness ==
  \E u \in DOMAIN LAST_ORDER_AT :
     /\ user_data[u] = {}
     /\ \E i \in DOMAIN orders : i > boot_rows /\ orders[i].user_id = u
     /\ Len(orders) = boot_rows + 1

\* C7: when a submission reaches the INSERT (no cooldown, an available product
\* selected) and the INSERT raises, the handler ends by raising: the whole
\* state is as it was (ledger, cooldown stamps, the selection), no
\* confirmation carries an order code and no admin is sent a new-order
\* notification.
C7_InsertRaises ==
  \A u \in Users, io \in IOs :
     ( /\ ~io.stored
       /\ ~CoolingDown(u)
       /\ user_data[u] # {}
       /\ InStock(oil_overrides, Get(user_data[u])) ) =>
        \A r \in Submissions(St, u, io) :
           /\ r.st = St
           /\ r.sent.raised
           /\ r.sent.reply = "none"
           /\ r.sent.code = << >>
           /\ r.sent.notified = << >>

\* A user about to submit for an available product, the cooldown of an
\* earlier order of that user being over.
C7_Witness ==
  \E u \in DOMAIN LAST_ORDER_AT :
     /\ ~CoolingDown(u)
     /\ user_data[u] # {}
     /\ InStock(oil_overrides, Get(user_data[u]))
     /\ \E i \in DOMAIN orders : orders[i].user_id = u

\* The product ids of a "place an order" press: two products of the catalog
\* and an id the catalog does not hold.
PressIds == {3, 4, 9}

\* C8 (as the code does it): a press for product P stores P as the caller's
\* selection, over an earlier selection if there is one, exactly when P is in
\* the catalog, its stored stock is not 0 and the prompt for the contact was
\* sent without an error; in every other case the whole state is left as it
\* was, and the reply is the unavailable message for an unknown P and the
\* out-of-stock message for a stock of 0.
C8_PlaceOrder ==
  \A u \in Users, P \in PressIds, delivered \in BOOLEAN :
     LET r == show_oil(St, u, P, delivered)
         can == InStock(oil_overrides, P)
     IN  /\ (can /\ delivered) =>
               /\ r.st = [St EXCEPT !.user_data[u] = {P}]
               /\ r.sent.reply = "send_contact"
         /\ ~(can /\ delivered) => r.st = St
         /\ P \notin DOMAIN oils => r.sent.reply = "unavailable"
         /\ (P \in DOMAIN oils /\ ~can) => r.sent.reply = "out_of_stock"

\* A user who selected product 3 before its stock was set to 0, next to a
\* user with no selection.
C8_Witness ==
  /\ user_data[3] = {3}
  /\ user_data[1] = {}
  /\ ~InStock(oil_overrides, 3)

\* C8 as stated: the selection becomes P whenever P is in the catalog and its
\* stock is not 0, and the state is untouched otherwise.
C8_Claimed ==
  \A u \in Users, P \in PressIds, delivered \in BOOLEAN :
     LET r == show_oil(St, u, P, delivered)
         can == InStock(oil_overrides, P)
     IN  /\ can => r.st = [St EXCEPT !.user_data[u] = {P}]
         /\ ~can => r.st = St

\* C9: for a user with a product selected, a text that is no contact is
\* answered with the validation error, and any valid submission during the
\* cooldown with the cooldown reply; either way the whole state (selection,
\* cooldown stamps, ledger, overrides) is as it was.
C9_RefusalChangesNothing ==
  \A u \in Users, io \in IOs :
     user_data[u] # {} =>
        /\ \A text \in {T_junk, << >>} :
              LET r == handle_message(St, u, text, io)
              IN  r.st = St /\ r.sent.reply \in {"bad_contact", "empty_contact"}
        /\ CoolingDown(u) =>
              \A r \in Submissions(St, u, io) :
                 r.st = St /\ r.sent.reply = "cooldown"

\* A user who ordered, selected a product again within the cooldown, while an
\* override is stored.
C9_Witness ==
  \E u \in Users :
     /\ user_data[u] # {}
     /\ CoolingDown(u)
     /\ orders # << >>
     /\ DOMAIN oil_overrides # {}

\* C10: cancel leaves the state it found but for the caller's selection, which
\* is gone; it reports the cancellation if there was a selection and "nothing
\* to cancel" if not; and a second cancel changes nothing more.
C10_Cancel ==
  \A u \in Users :
     LET r == cancel(St, u)
         again == cancel(r.st, u)
     IN  /\ r.st = [St EXCEPT !.user_data[u] = {}]
         /\ r.sent.reply = IF user_data[u] # {} THEN "cancelled" ELSE "nothing_to_cancel"
         /\ again.st = r.st
         /\ again.sent.reply = "nothing_to_cancel"

\* Both users have a selection, one of them a cooldown stamp, and the ledger
\* and the override store are not empty.
C10_Witness ==
  /\ \A u \in Users : user_data[u] # {}
  /\ DOMAIN LAST_ORDER_AT # {}
  /\ orders # << >>
  /\ DOMAIN oil_overrides # {}

\* The submission reaches the INSERT: no cooldown, an available product
\* selected.
ReachesInsert(u) ==
  /\ ~CoolingDown(u)
  /\ user_data[u] # {}
  /\ InStock(oil_overrides, Get(user_data[u]))

\* C11: when the INSERT went through and the confirmation was sent, the
\* new-order notification is attempted to every admin of ADMIN_IDS once, in
\* order, whichever of them fail; and whichever fail, the cooldown stamp is
\* set to now, the selection is cleared, and the state left is the one left
\* when none fails.
C11_NotifyAll ==
  \A u \in Users, io \in IOs :
     (ReachesInsert(u) /\ io.stored /\ io.delivered) =>
        \A r \in Submissions(St, u, io) :
           /\ Succeeded(r)
           /\ r.sent.notified = ADMIN_IDS
           /\ \A a \in Range(ADMIN_IDS) :
                 Cardinality({k \in DOMAIN r.sent.notified : r.sent.notified[k] = a}) = 1
           /\ r.sent.undelivered = io.lost
           /\ r.st.LAST_ORDER_AT[u] = now
           /\ r.st.user_data[u] = {}
           /\ \E q \in Submissions(St, u, [io EXCEPT !.lost = {}]) : q.st = r.st

\* The user who is no admin has an order in the ledger, a cooldown stamp and
\* no selection, while the admin is about to submit.
C11_Witness ==
  /\ 3 \in DOMAIN LAST_ORDER_AT
  /\ user_data[3] = {}
  /\ \E i \in DOMAIN orders : i > boot_rows /\ orders[i].user_id = 3
  /\ ReachesInsert(1)

\* The callers who are not in ADMIN_IDS.
NonAdmins == {u \in Users : u \notin Range(ADMIN_IDS)}

\* The admin-only commands sent as messages, as main dispatches them.
AdminCommands(st, u) ==
  {AdminCommand(st, u, show_orders(st, u, args)) : args \in PageArgs} \cup
  {AdminCommand(st, u, setprice_cmd(st, u, args)) : args \in PriceArgs} \cup
  {AdminCommand(st, u, setstock_cmd(st, u, args)) : args \in StockArgs} \cup
  {AdminCommand(st, u, version_cmd(st, u, found)) : found \in BOOLEAN} \cup
  {AdminCommand(st, u, export_csv(st, u)), AdminCommand(st, u, export_xlsx(st, u)),
   AdminCommand(st, u, stats(st, u)), AdminCommand(st, u, stock_cmd(st, u))}

\* The admin-only buttons: the pagination callback and the stock summary of
\* the start menu.
AdminButtons(st, u) ==
  {orders_page_cb(st, u, page) : page \in 1..2} \cup {admin_stock_summary(st, u)}

\* C12: whatever admin-only command or button a caller who is not in
\* ADMIN_IDS uses, the whole state (ledger and overrides included) is left as
\* it was and what is sent carries no row, page, or order code.
C12_NonAdminGetsNothing ==
  \A u \in NonAdmins :
     \A r \in AdminCommands(St, u) \cup AdminButtons(St, u) :
        /\ r.st = St
        /\ r.sent.rows = << >>
        /\ r.sent.code = << >>
        /\ r.sent.page = 0 /\ r.sent.pages = 0 /\ r.sent.nav = {}

\* A full ledger, and a price and a stock stored for product 3.
C12_Witness ==
  /\ Len(orders) = MaxOrders
  /\ 3 \in DOMAIN oil_overrides
  /\ oil_overrides[3].price # {}
  /\ oil_overrides[3].stock # {}

\* C13 (as the code does it): to a caller who is not in ADMIN_IDS every
\* admin-only command sent as a message is answered exactly as an unknown
\* command is, whichever command and arguments; the pagination button is
\* answered with the "no access" notice and the stock-summary button with the
\* "admins only" alert.
C13_DenialByEntry ==
  \A u \in NonAdmins :
     /\ \A r \in AdminCommands(St, u) : r = unknown_command(St, u)
     /\ \A page \in 1..2 : orders_page_cb(St, u, page).sent = Sent("no_access")
     /\ admin_stock_summary(St, u).sent = Sent("admins_only_alert")

\* The caller who is no admin is in the middle of an order while the ledger
\* and the override store hold data.
C13_Witness ==
  /\ \E u \in NonAdmins : user_data[u] # {}
  /\ orders # << >>
  /\ DOMAIN oil_overrides # {}
  /\ boot_rows = 0

\* C13 as stated: the response to a caller who is not in ADMIN_IDS is the
\* same for every admin-only operation.
C13_Claimed ==
  \A u \in NonAdmins :
     \A r, q \in AdminCommands(St, u) \cup AdminButtons(St, u) : r.sent = q.sent

\* The product ids asked for: the catalog and an id it does not hold.
AskedIds == DOMAIN oils \cup {9}

\* /setprice 3 1990 and /setprice 3 Reset, as the admin types them.
SetPrice1990 == <<<<"3">>, <<"1", "9", "9", "0">>>>

ResetPrice == <<<<"3">>, <<"R", "e", "s", "e", "t">>>>

\* C14: for an id the catalog does not hold get_effective_oil gives None; for
\* a product of the catalog it gives the catalog's name, volume and currency,
\* the stored price if one is stored and else the catalog price, and the
\* stored stock, which is None (unlimited) when nothing is stored; an admin's
\* /setprice makes the price the one set and a reset makes it the catalog
\* price again, the stock staying as it was; and the call leaves the catalog
\* entry as it was.
C14_EffectiveOil ==
  /\ \A oil_id \in AskedIds :
        LET eff == get_effective_oil(oil_overrides, oil_id)
            stored == oil_id \in DOMAIN oil_overrides
        IN  IF oil_id \notin DOMAIN oils THEN eff = None
            ELSE /\ eff # None
                 /\ Get(eff).name = oils[oil_id].name
                 /\ Get(eff).volume = oils[oil_id].volume
                 /\ Get(eff).currency = oils[oil_id].currency
                 /\ Get(eff).price =
                       IF stored /\ oil_overrides[oil_id].price # None
                       THEN Get(oil_overrides[oil_id].price)
                       ELSE IntText(oils[oil_id].price)
                 /\ Get(eff).stock =
                       IF stored THEN oil_overrides[oil_id].stock ELSE None
                 /\ Overlay(oils[oil_id], get_override(oil_overrides, oil_id)).base
                       = Entry(oils[oil_id])
  /\ \A u \in Users \ NonAdmins :
        LET before == Get(get_effective_oil(oil_overrides, 3))
            set == setprice_cmd(St, u, SetPrice1990).st
            reset == setprice_cmd(set, u, ResetPrice).st
        IN  /\ Get(get_effective_oil(set.oil_overrides, 3)) =
                  [before EXCEPT !.price = <<"1", "9", "9", "0">>]
            /\ Get(get_effective_oil(reset.oil_overrides, 3)) =
                  [before EXCEPT !.price = IntText(oils[3].price)]

\* Product 3 has a row in the override store with a stock and no price.
C14_Witness ==
  /\ 3 \in DOMAIN oil_overrides
  /\ oil_overrides[3].price = None
  /\ oil_overrides[3].stock # None
  /\ Get(oil_overrides[3].stock) > 0

\* Argument lists of /setprice and /setstock that name product 9, which the
\* catalog does not hold.
UnknownIdArgs ==
  {<<<<"9">>, <<"1", "9", "9", "0">>>>, <<<<"9">>, <<"r", "e", "s", "e", "t">>>>,
   <<<<"9">>, <<"5">>>>, <<<<"9">>, <<"i", "n", "f">>>>}

\* Quantities that are negative or no integer.
BadQuantities == {<<"-", "5">>, <<"-", "1">>, <<"2", ".", "5">>, <<"a", "b", "c">>}

\* C15 (as the code does it): for an admin, /setprice and /setstock with an id
\* that the catalog does not hold reply "not found" and leave the state as it
\* was; /setstock with a quantity that is negative or no integer replies "bad
\* quantity" and leaves the state as it was, except for -1, which is one of the
\* words for "unlimited": it is accepted and stores no stock for the product.
C15_RejectedOverrides ==
  \A u \in Users \ NonAdmins :
     /\ \A args \in UnknownIdArgs :
           /\ setprice_cmd(St, u, args) = Result(St, Sent("not_in_catalog"))
           /\ setstock_cmd(St, u, args) = Result(St, Sent("not_in_catalog"))
     /\ \A qty \in BadQuantities \ {<<"-", "1">>} :
           setstock_cmd(St, u, <<<<"3">>, qty>>) = Result(St, Sent("bad_quantity"))
     /\ LET r == setstock_cmd(St, u, <<<<"3">>, <<"-", "1">>>>)
        IN  /\ r.sent.reply = "stock_unlimited"
            /\ 3 \in DOMAIN r.st.oil_overrides
            /\ r.st.oil_overrides[3].stock = None

\* A stock of 0 and a price are stored for product 3.
C15_Witness ==
  /\ 3 \in DOMAIN oil_overrides
  /\ oil_overrides[3].stock = {0}
  /\ oil_overrides[3].price # None

\* C15 as stated: every negative or non-integer quantity is rejected with the
\* override store as it was.
C15_Claimed ==
  \A u \in Users \ NonAdmins :
     /\ \A args \in UnknownIdArgs :
           /\ setprice_cmd(St, u, args) = Result(St, Sent("not_in_catalog"))
           /\ setstock_cmd(St, u, args) = Result(St, Sent("not_in_catalog"))
     /\ \A qty \in BadQuantities :
           LET r == setstock_cmd(St, u, <<<<"3">>, qty>>)
           IN  r.sent.reply = "bad_quantity" /\ r.st.oil_overrides = oil_overrides

\* The page numbers asked for, and the token that /orders gets for one.
AskedPages == (0 - 1)..5

PageToken(p) == IF p < 0 THEN <<"-">> \o IntText(0 - p) ELSE IntText(p)

\* ceil(n / s)
CeilDiv(n, s) == IF n % s = 0 THEN n \div s ELSE (n \div s) + 1

\* The page of a ledger with ids 1..n that the claim describes for a request
\* of page p: the page shown, the ids on it and the hints.
ExpectedPage(n, s, p) ==
  LET last == CeilDiv(n, s)
      shown == IF p < 1 THEN 1 ELSE IF p > last THEN last ELSE p
      hi == n - (shown - 1) * s
      lo == Max(1, n - shown * s + 1)
  IN  [Sent("orders_page") EXCEPT
         !.rows = [k \in 1..(hi - lo + 1) |-> hi - k + 1],
         !.page = shown,
         !.pages = last,
         !.nav = (IF shown > 1 THEN {"prev"} ELSE {}) \cup
                 (IF shown < last THEN {"next"} ELSE {})]

\* C16: for a ledger with ids 1..n, n >= 1, and the page size of 10, an
\* admin's /orders p and the pagination button for p show the ids from
\* n - (p-1)*10 down to max(1, n - p*10 + 1), newest first, with "prev" exactly
\* when p > 1 and "next" exactly when p is not the last page; a p below 1 is
\* shown as page 1 and a p past the last page as the last page; the state is
\* left as it was.  With 25 orders page 2 lists 15 down to 6 with both hints.
C16_Pages ==
  LET n == Len(orders)
  IN  /\ \A i \in 1..n : orders[i].id = i
      /\ n >= 1 =>
            \A u \in Users \ NonAdmins, p \in AskedPages :
               /\ show_orders(St, u, <<PageToken(p)>>) =
                     Result(St, ExpectedPage(n, PAGE_SIZE, p))
               /\ p >= 0 => orders_page_cb(St, u, p) =
                     Result(St, ExpectedPage(n, PAGE_SIZE, p))
      /\ n = 25 =>
            LET sent == orders_page_cb(St, 1, 2).sent
            IN  /\ sent.rows = <<15, 14, 13, 12, 11, 10, 9, 8, 7, 6>>
                /\ sent.nav = {"prev", "next"}
                /\ sent.page = 2 /\ sent.pages = 3

\* A ledger of 25 orders.
C16_Witness ==
  /\ Len(orders) = 25
  /\ orders[25].id = 25
  /\ orders[1].id = 1

\* A legacy record that carries a price and a currency of its own.
LegacyPriced(u, oil, c) ==
  [Legacy(u, oil, c) EXCEPT !.price = {<<"9", "9">>}, !.currency = {"USD"}]

\* The snapshots a migration call may find.
FoundSnapshots ==
  {None, Unreadable, NotAList, Snapshot(<< >>), Snapshot(<<BadRecord>>),
   Snapshot(<<BadRecord, Legacy(3, 4, T_phone)>>),
   Snapshot(<<Legacy(3, 4, T_phone), BadRecord, LegacyPriced(1, 3, T_handle)>>),
   Snapshot(<<LegacyPriced(1, 3, T_handle), Legacy(3, 4, T_phone), BadRecord>>)}

\* C17: a migration call on a ledger that is not empty inserts nothing; so a
\* second call, after a first one that left the ledger non-empty, leaves the
\* ledger (and the id counter) as the first one left it.
C17_MigrationOnce ==
  \A snapshot \in FoundSnapshots :
     LET once == migrate_json_to_sql(orders, sqlite_sequence, snapshot, now)
         twice == migrate_json_to_sql(once.rows, once.seq, snapshot, now)
     IN  /\ orders # << >> => once = [rows |-> orders, seq |-> sqlite_sequence]
         /\ once.rows # << >> => twice = once

\* The process started on a ledger of two rows whose first was migrated at an
\* earlier start.
C17_Witness ==
  /\ boot_rows = 2
  /\ orders[1].price = <<"-">>
  /\ orders[2].price # <<"-">>

\* C18: a migration call leaves the ledger as it was if the ledger is not
\* empty, or the snapshot is missing, unreadable, not a list or an empty list;
\* otherwise the ledger becomes one row per record that is not malformed, in
\* the order of the snapshot, with the record's user, name, product, volume
\* and contact, its price and currency or the defaults, and consecutive ids;
\* the malformed records are skipped, those around them are kept.
C18_Migration ==
  \A snapshot \in FoundSnapshots :
     LET r == migrate_json_to_sql(orders, sqlite_sequence, snapshot, now)
         found == snapshot # None /\ Get(snapshot).readable /\ Get(snapshot).is_list
         good == IF found THEN SelectSeq(Get(snapshot).records, LAMBDA o : ~o.bad)
                 ELSE << >>
     IN  IF orders # << >> \/ ~found
         THEN r = [rows |-> orders, seq |-> sqlite_sequence]
         ELSE /\ Len(r.rows) = Len(good)
              /\ r.seq = sqlite_sequence + Len(good)
              /\ \A k \in DOMAIN good :
                    /\ r.rows[k].id = sqlite_sequence + k
                    /\ r.rows[k].created_at = now \div TicksPerSec
                    /\ r.rows[k].user_id = good[k].user_id
                    /\ r.rows[k].username = good[k].username
                    /\ r.rows[k].oil = good[k].oil
                    /\ r.rows[k].volume = good[k].volume
                    /\ r.rows[k].contact = good[k].contact
                    /\ r.rows[k].price =
                          IF good[k].price = {} THEN <<"-">> ELSE Get(good[k].price)
                    /\ r.rows[k].currency =
                          IF good[k].currency = {} THEN "RUB" ELSE Get(good[k].currency)

\* The ledger as a start left it that found it empty and a snapshot of a
\* malformed record followed by a well-formed one.
C18_Witness ==
  /\ boot_rows = 1
  /\ Len(orders) = 1
  /\ orders[1].id = 1
  /\ orders[1].user_id = 3
  /\ orders[1].price = <<"-">>
  /\ orders[1].currency = "RUB"

\* ----- contact validation
Pads == {<< >>, <<" ">>, <<"\n", "\t">>, <<"\r", "\n">>}

Padded(core) == {pre \o core \o post : pre \in Pads, post \in Pads}

\* Phone-like strings, handles of five or more characters, https links.
ShapedCores ==
  {<<"+", "7", "9", "0", "0", "1", "2", "3", "4", "5", "6", "7">>,
   <<"1", "-", "-", "-", "-", "-", "-", "-", "-", "2">>,
   <<"8", " ", "(", "9", "0", "0", ")", " ", "1", "2", "3", "-", "4", "5", "-", "6", "7">>,
   <<"1", "2", "3", "4", "5", "6", "7", "8", "9", "0">>,
   <<"@", "v", "a", "l", "i", "d", "u", "s", "e", "r", "1">>,
   <<"@", "a", "b", "c", "d", "e">>,
   <<"@", "a", "_", "B", "_", "9">>,
   <<"h", "t", "t", "p", "s", ":", "/", "/", "t", ".", "m", "e", "/", "a">>,
   <<"h", "t", "t", "p", "s", ":", "/", "/", "t", ".", "m", "e", "/", "v", "a", "l", "i", "d", "_", "u", "s", "e", "r", "1">>}

\* Strings of none of those shapes, among them ones that contain one.
OtherCores ==
  {<<"@", "a", "b", "c", "d">>,
   <<"@", "a", "b", "c", "-", "d", "e">>,
   <<"@", "a", "b", "c", "d", "e", " ", "f", "g">>,
   <<"h", "t", "t", "p", "s", ":", "/", "/", "t", ".", "m", "e", "/">>,
   <<"h", "t", "t", "p", "s", ":", "/", "/", "t", ".", "m", "e", "/", "a", "-", "b">>,
   <<"h", "t", "t", "p", "s", ":", "/", "/", "t", "X", "m", "e", "/", "a", "b">>,
   <<"f", "t", "p", ":", "/", "/", "t", ".", "m", "e", "/", "a", "b">>,
   <<"t", ".", "m", "e", "/", "a", "b">>,
   <<"1", "2", "3", "4", "5", "6", "7", "8", "9">>,
   <<"(", "9", "0", "0", ")", " ", "1", "2", "3", "-", "4", "5", "-", "6", "7">>,
   <<"+", " ", "7", "9", "0", "0", "1", "2", "3", "4", "5", "6", "7">>,
   <<"+", "+", "7", "9", "0", "0", "1", "2", "3", "4", "5", "6", "7">>,
   <<"x", "+", "7", "9", "0", "0", "1", "2", "3", "4", "5", "6", "7">>,
   <<"+", "7", "9", "0", "0", "1", "2", "3", "4", "5", "6", "7", "x">>,
   <<"+", "7", "9", "0", "0", "1", "2", "3", "4", "5", "6", "a", "7">>,
   <<"h", "i", "!">>,
   <<"7">>,
   << >>}

HttpLinks == {T_link_http, <<"h", "t", "t", "p", ":", "/", "/", "t", ".", "m", "e", "/", "v", "a", "l", "i", "d", "_", "u", "s", "e", "r", "1">>}

AllDelivered == [stored |-> TRUE, delivered |-> TRUE, lost |-> {}]

Accepted(core) ==
  \A text \in Padded(core) :
     validate_contact(text) = [ok |-> TRUE, norm |-> core, err |-> "none"]

Rejected(core) ==
  \A text \in Padded(core) \ {<< >>} :
     validate_contact(text) = [ok |-> FALSE, norm |-> << >>, err |-> "bad_contact"]

EmptyRejected ==
  validate_contact(<< >>) = [ok |-> FALSE, norm |-> << >>, err |-> "empty_contact"]

\* The verdicts on the texts above, with links over http accepted.
VerdictsWithHttp ==
  /\ \A core \in ShapedCores \cup HttpLinks : Accepted(core)
  /\ \A core \in OtherCores : Rejected(core)
  /\ EmptyRejected

\* The verdicts on the texts above, with links over http rejected.
VerdictsWithoutHttp ==
  /\ \A core \in ShapedCores : Accepted(core)
  /\ \A core \in OtherCores \cup HttpLinks : Rejected(core)
  /\ EmptyRejected

\* The message handler goes on to the order with the trimmed text, or
\* answers with the rejection and changes nothing.
HandlerGoesOn(u, text, core) ==
  handle_message(St, u, text, AllDelivered)
    = _create_order_for_user(St, u, core, AllDelivered)

HandlerRejects(u, text, err) ==
  handle_message(St, u, text, AllDelivered) = Result(St, Sent(err))

\* C19 (amended): validate_contact returns success with the trimmed text for
\* every text that is, after trimming, a phone-like string, an @handle of
\* five or more letters, digits or underscores, or a link http://t.me/<name>
\* or https://t.me/<name>; it returns the generic rejection for every other
\* non-empty text, one that only contains such a string included; and for
\* the empty text it returns a different rejection.
C19_Validate ==
  /\ VerdictsWithHttp
  /\ \A u \in Users :
        /\ HandlerGoesOn(u, <<"\t">> \o T_link_http \o <<" ">>, T_link_http)
        /\ HandlerGoesOn(u, T_padded, T_phone)
        /\ HandlerRejects(u, <<"x">> \o T_phone, "bad_contact")
        /\ HandlerRejects(u, << >>, "empty_contact")

\* An order stored with the trimmed http link a user typed with blanks
\* around it.
C19_Witness ==
  \E k \in DOMAIN orders :
     orders[k].contact = T_link_http /\ orders[k].user_id = 3

\* C19 as stated: only https links are accepted, every other non-empty text
\* gets the generic rejection.
C19_Claimed ==
  /\ VerdictsWithoutHttp
  /\ \A u \in Users :
        /\ HandlerRejects(u, <<"\t">> \o T_link_http \o <<" ">>, "bad_contact")
        /\ HandlerGoesOn(u, T_padded, T_phone)
        /\ HandlerRejects(u, <<"x">> \o T_phone, "bad_contact")
        /\ HandlerRejects(u, << >>, "empty_contact")

MaxPhoneLen == 11

RECURSIVE Strings(_, _)
Strings(alphabet, n) ==
  IF n = 0 THEN {<< >>}
  ELSE LET shorter == Strings(alphabet, n - 1)
       IN  shorter \cup {<<c>> \o t : c \in alphabet, t \in {x \in shorter : Len(x) = n - 1}}

\* An optional "+", then digits, hyphens, blanks and parentheses.
PhoneLikeTexts ==
  {plus \o body : plus \in {<< >>, <<"+">>}, body \in Strings({"7", "-"}, MaxPhoneLen)}
  \cup {T_phone, T_sparse, T_nine, T_parens,
        <<"+", "7", " ", "(", "9", "0", "0", ")", " ", "1", "2", "3", "-", "4", "5", "-", "6", "7">>,
        <<"+", "7", " ", "9", "0", "0", " ", "1", "2", "3", "-", "4", "5", "-", "6", "7">>,
        <<"1", "2", "3", "4", "5", "6", "7", "8", "9", "0", " ">>,
        <<"(", "7", "7", "7", "7", "7", "7", "7", "7", "7", "7", ")">>}

DigitCount(s) == Cardinality({i \in DOMAIN s : s[i] \in Digit})

AfterPlus(s) == IF s # << >> /\ Head(s) = "+" THEN Tail(s) ELSE s

\* The texts among them that the validation accepts.
PhonesAccepted == {text \in PhoneLikeTexts : validate_contact(text).ok}

\* Those with ten or more characters after the optional "+", the first and
\* the last a digit, blanks at the ends of the text apart.
PhonesTenLong ==
  {text \in PhoneLikeTexts :
     LET body == AfterPlus(strip(text))
     IN  Len(body) >= 10 /\ body[1] \in Digit /\ body[Len(body)] \in Digit}

\* Those with nine or more digits.
PhonesNineDigits == {text \in PhoneLikeTexts : DigitCount(text) >= 9}

\* C20 (amended): a text made of an optional leading "+" followed by digits,
\* blanks, hyphens and parentheses is accepted exactly when, blanks at its
\* ends trimmed, what follows the optional "+" has ten or more characters and
\* begins and ends with a digit.
C20_PhoneAccepted ==
  /\ PhonesAccepted = PhonesTenLong
  /\ \A u \in Users :
        /\ HandlerGoesOn(u, T_sparse, T_sparse)
        /\ HandlerRejects(u, T_nine, "bad_contact")
        /\ HandlerRejects(u, T_parens, "bad_contact")

\* An order stored with a contact of ten characters and two digits.
C20_Witness ==
  \E k \in DOMAIN orders :
     orders[k].contact = T_sparse /\ DigitCount(orders[k].contact) = 2

\* C20 as stated: accepted exactly when the text holds nine or more digits.
C20_Claimed ==
  /\ PhonesAccepted = PhonesNineDigits
  /\ \A u \in Users :
        /\ HandlerRejects(u, T_sparse, "bad_contact")
        /\ HandlerGoesOn(u, T_nine, T_nine)

\* ----- scenarios and frame conditions
\* C21: on an empty ledger with no overrides, a user who selects product 3
\* and sends the contact "@validuser1" gets the order with id 1, shown as
\* "#001", price 1400, the catalog's currency and that contact; every
\* submission of the same user at the same instant is then answered with the
\* cooldown message and changes nothing, the selection having been cleared.
C21_ScenarioA ==
  (orders = << >> /\ oil_overrides = << >>) =>
     \A u \in Users, lost \in SUBSET Range(ADMIN_IDS) :
        LET a == show_oil(St, u, 3, TRUE)
            b == handle_message(a.st, u, T_handle,
                                [stored |-> TRUE, delivered |-> TRUE, lost |-> lost])
        IN  /\ a.sent.reply = "send_contact"
            /\ b.sent.reply = "created"
            /\ b.sent.code = <<"#", "0", "0", "1">>
            /\ b.st.orders =
                  <<[id |-> 1, created_at |-> now \div TicksPerSec, user_id |-> u,
                     username |-> username[u], oil |-> oils[3].name,
                     volume |-> oils[3].volume, price |-> <<"1", "4", "0", "0">>,
                     currency |-> oils[3].currency, contact |-> T_handle]>>
            /\ b.st.user_data[u] = {}
            /\ \A io \in IOs :
                  \A c \in Submissions(b.st, u, io) :
                     /\ c.sent.reply = "cooldown"
                     /\ c.sent.remain = ORDER_COOLDOWN_SEC
                     /\ c.st = b.st

\* The ledger after the scenario: one order, of user 3, for product 3, with
\* the contact "@validuser1"; the selection cleared and the stamp set.
C21_Witness ==
  /\ boot_rows = 0
  /\ Len(orders) = 1
  /\ orders[1].id = 1
  /\ orders[1].user_id = 3
  /\ orders[1].oil = oils[3].name
  /\ orders[1].contact = T_handle
  /\ user_data[3] = {}
  /\ 3 \in DOMAIN LAST_ORDER_AT

\* C22 as stated: a user with no product selected is answered with the prompt
\* to open the catalog whatever text or contact payload the user sends, and
\* never with a validation error or a cooldown message.
C22_Claimed ==
  \A u \in Users, io \in IOs :
     (user_data[u] = {} /\ io.delivered) =>
        \A r \in Messages(St, u, io) :
           /\ r.sent.reply = "use_catalog"
           /\ r.st = St

\* C23 as stated: when the INSERT of a submission raises, the handler answers
\* the submitting user with a failure message; no order is confirmed and the
\* user's state is as it was.
C23_Claimed ==
  \A u \in Users, io \in IOs :
     ( /\ ~io.stored
       /\ ~CoolingDown(u)
       /\ user_data[u] # {}
       /\ InStock(oil_overrides, Get(user_data[u])) ) =>
        \A r \in Submissions(St, u, io) :
           /\ r.sent.reply # "none"
           /\ r.sent.code = << >>
           /\ r.st = St

\* C24 as stated: when the read of the ledger raises during a listing, an
\* export or a stats request of an admin, the admin is answered as on an
\* empty ledger and the handler does not end by raising.
C24_Claimed ==
  \A u \in Range(ADMIN_IDS) :
     LET empty == [St EXCEPT !.orders = << >>]
         same(r, e) == r.sent = e.sent /\ r.st = St
     IN  /\ same(Reading(St, u, FALSE, show_orders(St, u, << >>)),
                 show_orders(empty, u, << >>))
         /\ same(Reading(St, u, FALSE, orders_page_cb(St, u, 1)),
                 orders_page_cb(empty, u, 1))
         /\ same(Reading(St, u, FALSE, export_csv(St, u)), export_csv(empty, u))
         /\ same(Reading(St, u, FALSE, export_xlsx(St, u)), export_xlsx(empty, u))
         /\ same(Reading(St, u, FALSE, stats(St, u)), stats(empty, u))

\* The stamps of a run of the process stay and do not move back.
StampsKept ==
  \A u \in DOMAIN LAST_ORDER_AT :
     u \in DOMAIN LAST_ORDER_AT' /\ LAST_ORDER_AT'[u] >= LAST_ORDER_AT[u]

\* C25: in every state of a run of the process a user has a cooldown stamp
\* only if the ledger holds an order of that user inserted in this run (a row
\* past those found at the start), and the stamp is not later than the
\* clock; and every step other than a restart keeps each stamp, at the same
\* or a later time.
C25_StampAfterInsert ==
  /\ [](\A u \in DOMAIN LAST_ORDER_AT :
          /\ LAST_ORDER_AT[u] <= now
          /\ \E i \in DOMAIN orders :
                /\ i > boot_rows
                /\ orders[i].user_id = u
                /\ orders[i].created_at = LAST_ORDER_AT[u] \div TicksPerSec)
  /\ [][Restart \/ StampsKept]_vars

\* Both users hold a stamp, taken at different times, in a run that started
\* on an empty ledger.
C25_Witness ==
  /\ boot_rows = 0
  /\ DOMAIN LAST_ORDER_AT = Users
  /\ LAST_ORDER_AT[1] < LAST_ORDER_AT[3]
  /\ LAST_ORDER_AT[3] < now

\* Every event a user can cause: a press of "place an order", a message to a
\* submission handler, a cancel, an admin command or button.
EventsOf(st, v) ==
  {show_oil(st, v, oil_id, delivered) : oil_id \in PressIds, delivered \in BOOLEAN}
  \cup UNION {Messages(st, v, io) : io \in IOs}
  \cup {cancel(st, v)}
  \cup AdminCommands(st, v) \cup AdminButtons(st, v)

StampOf(st, u) == IF u \in DOMAIN st.LAST_ORDER_AT THEN {st.LAST_ORDER_AT[u]} ELSE {}

RefusedByCooldown(st, u) ==
  handle_contact(st, u, T_phone, AllDelivered).sent.reply = "cooldown"

\* C26: no event of another user, an admin command included, changes a
\* user's selection or cooldown stamp, nor whether the cooldown refuses that
\* user's submission; and the passage of time changes no selection and no
\* stamp, so a pending selection does not expire.
C26_OwnEventsOnly ==
  /\ [](\A u \in Users :
          \A v \in Users \ {u} :
          \A r \in EventsOf(St, v) :
             /\ r.st.user_data[u] = user_data[u]
             /\ StampOf(r.st, u) = StampOf(St, u)
             /\ RefusedByCooldown(r.st, u) <=> RefusedByCooldown(St, u))
  /\ [][now' # now => (user_data' = user_data /\ LAST_ORDER_AT' = LAST_ORDER_AT)]_vars

\* User 3 still has a product selected, and no stamp, a window of time after
\* the start, while user 1 is cooling down after an order.
C26_Witness ==
  /\ user_data[3] # {}
  /\ 3 \notin DOMAIN LAST_ORDER_AT
  /\ now >= WindowTicks
  /\ CoolingDown(1)

\* What a restart leaves of the process memory: no selection and no stamp,
\* so that every user can at once select a product in stock and order it;
\* and the override store as it was.
MemoryLost(r) ==
  /\ r.st.LAST_ORDER_AT = << >>
  /\ r.st.oil_overrides = oil_overrides
  /\ \A u \in Users :
        /\ r.st.user_data[u] = {}
        /\ InStock(oil_overrides, 3) =>
              \E a \in {show_oil(r.st, u, 3, TRUE)} :
                 /\ a.sent.reply = "send_contact"
                 /\ handle_contact(a.st, u, T_phone, AllDelivered).sent.reply = "created"

\* C27 (amended): a restart puts every user in Idle with no cooldown stamp,
\* so a user who ordered less than the window ago can select and order again
\* at once; the override store holds what it held; the ledger keeps every
\* row it held, and holds exactly those unless it was empty and the start
\* finds a legacy snapshot, whose records the migration then inserts.
C27_Restart ==
  \A snapshot \in FoundSnapshots :
     \E r \in {main(St, snapshot)} :
        /\ MemoryLost(r)
        /\ Len(r.st.orders) >= Len(orders)
        /\ SubSeq(r.st.orders, 1, Len(orders)) = orders
        /\ (orders # << >> \/ snapshot = None) =>
              /\ r.st.orders = orders
              /\ r.st.sqlite_sequence = sqlite_sequence

\* The process as a restart left it after an order submitted in the run
\* before, with an override stored.
C27_Witness ==
  /\ boot_rows = Len(orders)
  /\ LAST_ORDER_AT = << >>
  /\ oil_overrides # << >>
  /\ \E i \in DOMAIN orders : orders[i].user_id = 1 /\ orders[i].price # <<"-">>

\* C27 as stated: after a restart the ledger holds exactly what it held
\* before, whatever the start finds.
C27_Claimed ==
  \A snapshot \in FoundSnapshots :
     \E r \in {main(St, snapshot)} :
        /\ MemoryLost(r)
        /\ r.st.orders = orders

\* C29: in every run of a submission handler the effects form a chain: a
\* confirmation is sent only with the code of the row the run has just
\* inserted; the admins are notified only after the confirmation was
\* delivered; the cooldown stamp is recorded only after the notifications
\* were attempted to every admin; and the selection of an accepted
\* submission is cleared only with the stamp recorded.  So nothing is sent
\* for an order that is not in the ledger.
C29_EffectsInOrder ==
  \A u \in Users, io \in IOs :
     \A r \in Messages(St, u, io) :
        LET inserted == Len(r.st.orders) = Len(orders) + 1
            new == r.st.orders[Len(r.st.orders)]
            confirmed == r.sent.reply = "created" /\ ~r.sent.raised
            stamped == StampOf(r.st, u) = {now}
        IN  /\ r.sent.code # << >> =>
                  inserted /\ r.sent.code = OrderCode(new.id) /\ new.user_id = u
            /\ r.sent.reply = "created" => r.sent.code # << >>
            /\ r.sent.notified # << >> => confirmed
            /\ StampOf(r.st, u) # StampOf(St, u) =>
                  confirmed /\ stamped /\ r.sent.notified = ADMIN_IDS
            /\ (inserted /\ r.st.user_data[u] = {}) => stamped
            /\ (inserted /\ confirmed) =>
                  stamped /\ r.st.user_data[u] = {} /\ r.sent.notified = ADMIN_IDS

\* Two orders of user 3 at one instant: the confirmation of the first was
\* not delivered, that of the second was.
C29_Witness ==
  /\ boot_rows = 0
  /\ Len(orders) = 2
  /\ orders[1].user_id = 3 /\ orders[2].user_id = 3
  /\ orders[1].created_at = orders[2].created_at
  /\ LAST_ORDER_AT = [x \in {3} |-> now]
  /\ now > 0
  /\ user_data[3] = {}

\* What an admin may do between a user's selection and the submission:
\* nothing, or a price or stock command.
AdminChanges(st) ==
  {Result(st, Sent("none"))}
  \cup {setprice_cmd(st, 1, args) : args \in PriceArgs}
  \cup {setstock_cmd(st, 1, args) : args \in StockArgs}

\* The price in force for a product: the stored override if it is not blank,
\* else the catalog price.
PriceInForce(ov, oil_id) ==
  IF oil_id \in DOMAIN ov /\ ov[oil_id].price # {} /\ strip(Get(ov[oil_id].price)) # << >>
  THEN Get(ov[oil_id].price)
  ELSE IntText(oils[oil_id].price)

SelectedGone ==
  {u \in Users : /\ user_data[u] # {}
                 /\ ~InStock(oil_overrides, Get(user_data[u]))
                 /\ ~CoolingDown(u)}

\* The run of a submission that found the product out of stock: nothing is
\* inserted, confirmed or notified, and no stamp or override changes.
NothingOrdered(r) ==
  /\ r.sent.reply = "out_of_stock"
  /\ r.sent.code = << >>
  /\ r.sent.notified = << >>
  /\ r.st.orders = orders
  /\ r.st.sqlite_sequence = sqlite_sequence
  /\ r.st.LAST_ORDER_AT = LAST_ORDER_AT
  /\ r.st.oil_overrides = oil_overrides

\* C31 (amended): no order is inserted for a product whose stock is 0 when
\* the contact is submitted: if the stock was set to 0 after the user
\* selected the product, a submission that passes the cooldown inserts
\* nothing, notifies no admin and leaves the stamps as they were; the user's
\* selection is cleared once the out-of-stock reply has been delivered, and
\* stays if the reply was not.
C31_NoOrderAtStockZero ==
  /\ \A u \in SelectedGone, io \in IOs :
        \E r \in {handle_contact(St, u, T_phone, io)} :
           /\ NothingOrdered(r)
           /\ r.st.user_data = IF io.delivered THEN PopOrdering(user_data, u) ELSE user_data
           /\ r.sent.raised = ~io.delivered
  /\ \A u \in Users, io \in IOs :
        \E r \in {handle_contact(St, u, T_phone, io)} :
           r.st.orders # orders =>
              user_data[u] # {} /\ InStock(oil_overrides, Get(user_data[u]))

\* Both users selected product 3, one order of it is in the ledger, and its
\* stock has been set to 0 since.
C31_Witness ==
  /\ user_data = [u \in Users |-> {3}]
  /\ SelectedGone # {}
  /\ 3 \in DOMAIN oil_overrides /\ oil_overrides[3].stock = {0}
  /\ \E i \in DOMAIN orders : i > boot_rows /\ orders[i].oil = oils[3].name

\* C31 as stated: the submission also returns the user to Idle, whatever
\* happens to the reply.
C31_Claimed ==
  \A u \in SelectedGone, io \in IOs :
     \E r \in {handle_contact(St, u, T_phone, io)} :
        /\ NothingOrdered(r)
        /\ r.st.user_data[u] = {}

\* The events of order intake a user can cause.
IntakeEvents(st, u) ==
  {show_oil(st, u, oil_id, delivered) : oil_id \in PressIds, delivered \in BOOLEAN}
  \cup {handle_contact(st, u, phone, io) : phone \in Phones, io \in IOs}
  \cup {handle_message(st, u, T_junk, AllDelivered), cancel(st, u)}

\* The orders of a product in the ledger.
OrdersOf(oil_id) == {i \in DOMAIN orders : orders[i].oil = oils[oil_id].name}

\* C32: no event of order intake changes the override store, and no command
\* of a user who is no admin does; a product whose stored stock is n > 0 is
\* ordered with the stock left at n, however many orders of it the ledger
\* holds already.
C32_IntakeKeepsOverrides ==
  /\ \A u \in Users :
        \A r \in IntakeEvents(St, u) : r.st.oil_overrides = oil_overrides
  /\ \A u \in NonAdmins :
        \A r \in AdminCommands(St, u) \cup AdminButtons(St, u) :
           r.st.oil_overrides = oil_overrides
  /\ \A u \in Users :
        ( /\ user_data[u] = {3}
          /\ ~CoolingDown(u)
          /\ 3 \in DOMAIN oil_overrides
          /\ oil_overrides[3].stock \notin {{}, {0}} ) =>
           \E r \in {handle_contact(St, u, T_phone, AllDelivered)} :
              /\ r.sent.reply = "created"
              /\ Len(r.st.orders) = Len(orders) + 1
              /\ r.st.oil_overrides[3].stock = oil_overrides[3].stock

\* Product 3 has been ordered as many times as its stored stock of 2, in
\* this run, and a user is about to order it again.
C32_Witness ==
  /\ 3 \in DOMAIN oil_overrides /\ oil_overrides[3].stock = {2}
  /\ Cardinality(OrdersOf(3)) = 2
  /\ boot_rows = 0
  /\ \E u \in Users : user_data[u] = {3} /\ ~CoolingDown(u)

\* /setprice and /setstock for products 3 and 4, setting and resetting.
PriceCommands ==
  {<<id, price>> : id \in {<<"3">>, <<"4">>},
                   price \in {<<"1", "9", "9", "0">>, <<"R", "e", "s", "e", "t">>}}

StockCommands ==
  {<<id, qty>> : id \in {<<"3">>, <<"4">>},
                 qty \in {<<"0">>, <<"2">>, <<"i", "n", "f">>}}

\* The product a command is about.
Target(args) == Get(ParseInt(args[1]))

\* C33: an admin's /setprice, setting or resetting, leaves the stock
\* override of its product as it was, an admin's /setstock leaves the price
\* override as it was, and neither changes the override of any other
\* product; a price set and then reset leaves the effective price the
\* catalog price.
C33_OverridesIndependent ==
  /\ \A args \in PriceCommands :
        \E r \in {setprice_cmd(St, 1, args)} :
           /\ r.sent.reply \in {"price_set", "price_reset"}
           /\ get_override(r.st.oil_overrides, Target(args)).stock
                 = get_override(oil_overrides, Target(args)).stock
           /\ \A j \in DOMAIN oils \ {Target(args)} :
                 get_override(r.st.oil_overrides, j) = get_override(oil_overrides, j)
  /\ \A args \in StockCommands :
        \E r \in {setstock_cmd(St, 1, args)} :
           /\ r.sent.reply \in {"stock_set", "stock_unlimited"}
           /\ get_override(r.st.oil_overrides, Target(args)).price
                 = get_override(oil_overrides, Target(args)).price
           /\ \A j \in DOMAIN oils \ {Target(args)} :
                 get_override(r.st.oil_overrides, j) = get_override(oil_overrides, j)
  /\ \A id \in {<<"3">>, <<"4">>} :
        \E set \in {setprice_cmd(St, 1, <<id, <<"1", "9", "9", "0">>>>)} :
           \E reset \in {setprice_cmd(set.st, 1, <<id, <<"R", "e", "s", "e", "t">>>>)} :
              /\ Get(get_effective_oil(set.st.oil_overrides, Target(<<id>>))).price
                    = <<"1", "9", "9", "0">>
              /\ Get(get_effective_oil(reset.st.oil_overrides, Target(<<id>>))).price
                    = IntText(oils[Target(<<id>>)].price)
              /\ get_override(reset.st.oil_overrides, Target(<<id>>)).stock
                    = get_override(oil_overrides, Target(<<id>>)).stock

\* Product 3 has both a price and a stock stored.
C33_Witness ==
  /\ 3 \in DOMAIN oil_overrides
  /\ oil_overrides[3].price # None
  /\ oil_overrides[3].stock # None

\* All the messages of the model that are no command: texts, valid or not,
\* and contact payloads, with a number, well-formed or not, or without one.
AnyMessage(st, u, io) ==
  Messages(st, u, io)
  \cup {handle_message(st, u, text, io) : text \in ContactTexts \cup Texts}
  \cup {handle_contact(st, u, phone, io) : phone \in PayloadPhones \cup Phones}

\* The users with no product selected.
Idle == {u \in Users : user_data[u] = {}}

\* C34: for a user with no product selected no text and no contact payload,
\* valid or not, inserts an order: each leaves the ledger, the cooldown stamps
\* and the selections of all users as they were.
C34_IdleNoInsert ==
  \A u \in Idle, io \in IOs :
     \A r \in AnyMessage(St, u, io) :
        /\ r.st.orders = orders
        /\ r.st.sqlite_sequence = sqlite_sequence
        /\ r.st.LAST_ORDER_AT = LAST_ORDER_AT
        /\ r.st.user_data = user_data
        /\ r.sent.reply # "created"

\* A user who has ordered before has no product selected and no cooldown
\* running, so that a contact reaches the test for the selection.
C34_Witness ==
  \E u \in Idle :
     /\ ~CoolingDown(u)
     /\ \E k \in DOMAIN orders : k > boot_rows /\ orders[k].user_id = u
     /\ handle_contact(St, u, T_phone, AllDelivered).sent.reply = "use_catalog"

\* The contacts the text handler passes on: the accepted texts, trimmed.
TextContacts ==
  {validate_contact(text).norm : text \in {t \in Texts : validate_contact(t).ok}}

\* The contacts the contact handler passes on: the numbers, trimmed.
PayloadContacts == {strip(phone) : phone \in PayloadPhones \ {<< >>}}

\* C35 as stated: every order inserted by a submission carries a contact that
\* is not empty and is an accepted text, trimmed, or the trimmed number of a
\* contact message; a contact message without a number changes no state; and
\* the number of a contact message is stored though the validator rejects it.
C35_Claimed ==
  /\ \A k \in DOMAIN orders :
        k > boot_rows =>
           /\ orders[k].contact # << >>
           /\ orders[k].contact \in TextContacts \cup PayloadContacts
  /\ \A u \in Users, io \in IOs :
        \E r \in {handle_contact(St, u, << >>, io)} :
           r.st = St /\ r.sent.reply \in {"no_number", "none"}
  /\ \A u \in Users :
        ( /\ user_data[u] # {}
          /\ ~CoolingDown(u)
          /\ InStock(oil_overrides, Get(user_data[u])) ) =>
           \E r \in {handle_contact(St, u, T_short, AllDelivered)} :
              /\ ~validate_contact(T_short).ok
              /\ r.sent.reply = "created"
              /\ r.st.orders[Len(r.st.orders)].contact = strip(T_short)

====
